---- MODULE Spec2Model ----
(***************************************************************************)
(* A model of the x86 Stalker backend (src/gum/backend-x86/gumstalker-x86.c) *)
(* as a state machine.  The module holds several specifications over one   *)
(* set of variables; each keeps the variables of the others unchanged:     *)
(*                                                                         *)
(*   Spec        the life cycle of execution contexts: threads that follow *)
(*               and unfollow, the engine's context list, the TLS slot,    *)
(*               the entry gates and the excursions out of translated code *)
(*   SpecFrames  the shadow stack of return frames                         *)
(*   SpecBlocks  the block store: lookup, compilation, recompilation,      *)
(*               snapshots and the code lock                               *)
(*   SpecLoop    the block store entered by a loop whose code is never     *)
(*               written to                                                *)
(*   SpecExec    a thread running translated code: entry gates, static     *)
(*               backpatches, inline caches, invalidation                  *)
(*   SpecExecFair  the same thread under the assumption that it keeps      *)
(*               executing, with a request to unfollow it                  *)
(*   SpecSite    a thread running an indirect call site with an inline     *)
(*               cache                                                     *)
(*   SpecInval   a thread that runs a block while other threads call       *)
(*               gum_stalker_invalidate_for_thread on it                   *)
(*   SpecInvalFair  the same under fair scheduling of the threads          *)
(*   SpecStopFair  the life cycle with gum_stalker_stop, every thread      *)
(*               inside it being scheduled                                 *)
(*   SpecDestroy the life cycle with gum_stalker_destroy_exec_ctx taken    *)
(*               in steps                                                  *)
(*   SpecSlabs   the code and data slabs of one context                    *)
(*   SpecCall    a call instruction and the excluded ranges                *)
(*   SpecLookup  the lookup code of an inline cache                        *)
(***************************************************************************)
EXTENDS Integers, Sequences, FiniteSets, TLC

(***************************************************************************)
(* Values                                                                  *)
(***************************************************************************)
NULL == 0

\* enum _GumExecCtxState
GUM_EXEC_CTX_ACTIVE == 0
GUM_EXEC_CTX_UNFOLLOW_PENDING == 1
GUM_EXEC_CTX_DESTROY_PENDING == 2

\* Guest addresses.  The life cycle does not depend on where a block
\* starts, so one guest address stands for the application's code there.
\* The three functions the dispatcher knows by address get addresses of
\* their own.  The translation of the block that starts at guest address a
\* lives at the code address -a.
GuestAddrs == {1}
ADDR_unfollow_me == 101
ADDR_deactivate == 102
ADDR_thread_exit_impl == 103
SpecialAddrs == {ADDR_unfollow_me, ADDR_deactivate, ADDR_thread_exit_impl}
code_address(a) == 0 - a

\* Threads of the process.  A guest thread runs application code and can be
\* followed; every thread can call the engine's API.
Threads == {1, 2}
Guests == {1}

\* Bounds of the exploration: the execution contexts alive at one time
\* (the memory of a freed context is handed out again), and the depth to
\* which excluded-range calls and callouts nest.
MaxCtx == 2
MaxPending == 2
CtxIds == 1..MaxCtx

VARIABLES
  contexts,   \* GumStalker.contexts: the list of live execution contexts
  ctx,        \* the GumExecCtx objects, by identity
  tls,        \* the exec_ctx TLS slot of every thread
  thr,        \* where every thread is executing
  aborted,    \* a g_assert has failed: the process is gone
  sink        \* the calls the event sink has received, by context

lifeVars == <<contexts, ctx, tls, thr, aborted, sink>>

VARIABLES
  frames,         \* the page of GumExecFrame slots
  current_frame,  \* GumExecCtx.current_frame, as an index into frames
  app_stack,      \* the words on the guest's stack, top last
  last_insn,      \* the instruction the thread executed last
  escaped         \* the thread has left for address 0

frameVars == <<frames, current_frame, app_stack, last_insn, escaped>>

VARIABLES
  mem,              \* the guest's code bytes
  slab,             \* the bytes of the context's code slab
  offset,           \* the cursor of the code slab
  blocks,           \* the GumExecBlock records, by identity
  mappings,         \* GumExecCtx.mappings: guest address -> block
  installed,        \* the blocks ever inserted for a guest address
  trust_threshold,  \* GumStalker.trust_threshold
  code_lock,        \* GumExecCtx.code_lock: the caller holding it, or NULL
  call              \* the calls of gum_exec_ctx_obtain_block_for under way

blockVars == <<mem, slab, offset, blocks, mappings, installed,
               trust_threshold, code_lock, call>>

VARIABLES
  exec_ctx,      \* the GumExecCtx of the thread that runs translated code
  exec_pc,       \* where that thread is
  exec_blocks,   \* its translated blocks, by the guest address they start at
  scratch_slab,  \* what the inline-cache region of the scratch slab holds
  sink_mask,     \* GumExecCtx.sink_mask: the events the sink asked for
  notified       \* the backpatch handed to the observer by the last step

execVars == <<exec_ctx, exec_pc, exec_blocks, scratch_slab, sink_mask,
              notified>>

VARIABLES
  site_ctx,     \* the GumExecCtx of the thread that runs an indirect call site
  site_pc,      \* where that thread is
  site_blocks,  \* the block of the call site and the blocks it calls
  call_mem      \* the entries into the call_mem gate, by target

siteVars == <<site_ctx, site_pc, site_blocks, call_mem>>

VARIABLES
  victim,    \* the thread that owns the block: where it is, and stopped or not
  head,      \* the first GUM_INVALIDATE_TRAMPOLINE_SIZE bytes of the block
  inval,     \* the calls of gum_stalker_invalidate_for_thread under way
  inv_lock   \* the code_lock of the victim's context: its holder, or NULL

invalVars == <<victim, head, inval, inv_lock>>

VARIABLES
  code_slab,   \* the code slabs of a context, ctx->code_slab first
  data_slab,   \* its data slabs, ctx->data_slab first
  open_block,  \* a block has been allocated and is not yet committed
  reserved     \* the last call of gum_slab_try_reserve and what it returned

slabVars == <<code_slab, data_slab, open_block, reserved>>

VARIABLES
  exclusions,  \* GumStalker.exclusions, as the set of addresses in a range
  call_insn,   \* the call instruction of the caller's block, as compiled
  caller       \* the thread that executes it, and its context

callVars == <<exclusions, call_insn, caller>>

VARIABLES
  lk_entries,   \* the IcEntry array of an indirect branch
  lk_match,     \* the word behind it, ic_match
  lk_mappings,  \* the guest addresses that have a block
  lk_pc         \* where the thread that executes the branch is

lookupVars == <<lk_entries, lk_match, lk_mappings, lk_pc>>

notLifeVars == <<frameVars, blockVars, execVars, siteVars, invalVars, slabVars, callVars, lookupVars>>
notFrameVars == <<lifeVars, blockVars, execVars, siteVars, invalVars, slabVars, callVars, lookupVars>>
notBlockVars == <<lifeVars, frameVars, execVars, siteVars, invalVars, slabVars, callVars, lookupVars>>
notExecVars == <<lifeVars, frameVars, blockVars, siteVars, invalVars, slabVars, callVars, lookupVars>>
notSiteVars == <<lifeVars, frameVars, blockVars, execVars, invalVars, slabVars, callVars, lookupVars>>
notInvalVars == <<lifeVars, frameVars, blockVars, execVars, siteVars, slabVars, callVars, lookupVars>>
notSlabVars == <<lifeVars, frameVars, blockVars, execVars, siteVars, invalVars, callVars, lookupVars>>
notCallVars == <<lifeVars, frameVars, blockVars, execVars, siteVars, invalVars, slabVars, lookupVars>>
notLookupVars == <<lifeVars, frameVars, blockVars, execVars, siteVars, invalVars, slabVars, callVars>>
vars == <<lifeVars, frameVars, blockVars, execVars, siteVars, invalVars, slabVars, callVars, lookupVars>>

(***************************************************************************)
(* Execution contexts                                                      *)
(***************************************************************************)
\* Memory that holds no context: not yet allocated, or freed and zeroed
\* again by the allocator before it is handed out (gum_memory_allocate).
NoCtx ==
  [live |-> FALSE, state |-> GUM_EXEC_CTX_ACTIVE,
   thread_id |-> NULL, sink_started |-> FALSE,
   unfollow_called_while_still_following |-> FALSE,
   current_block |-> NULL, pending_return_location |-> NULL,
   pending_calls |-> 0, resume_at |-> NULL, activation_target |-> NULL,
   mappings |-> {}]

gum_exec_ctx_new(thread_id) ==
  [NoCtx EXCEPT !.live = TRUE,
                !.state = GUM_EXEC_CTX_ACTIVE, !.thread_id = thread_id]

\* The fields gum_exec_ctx_unfollow writes in the context; it also clears
\* the TLS slot of the thread that runs it (ClearTlsIf below).
gum_exec_ctx_unfollow(cx, resume_at) ==
  [cx EXCEPT !.current_block = NULL,
             !.resume_at = resume_at,
             !.state = GUM_EXEC_CTX_DESTROY_PENDING]

\* A poll that does not look at pending_calls (used to test C3).
maybe_unfollow_ignoring_pending_calls(cx, resume_at) ==
  IF cx.state # GUM_EXEC_CTX_UNFOLLOW_PENDING
    THEN [done |-> FALSE, cx |-> cx]
    ELSE [done |-> TRUE, cx |-> gum_exec_ctx_unfollow(cx, resume_at)]

\* The poll: [done] is the return value, [cx] the context afterwards.
gum_exec_ctx_maybe_unfollow(cx, resume_at) ==
  IF cx.state # GUM_EXEC_CTX_UNFOLLOW_PENDING
    THEN [done |-> FALSE, cx |-> cx]
    ELSE IF cx.pending_calls > 0
      THEN [done |-> FALSE, cx |-> cx]
      ELSE [done |-> TRUE, cx |-> gum_exec_ctx_unfollow(cx, resume_at)]

ClearTlsIf(t, done) ==
  IF done THEN [tls EXCEPT ![t] = NULL] ELSE tls

gum_exec_ctx_has_executed(cx) ==
  cx.resume_at # NULL

\* A plain store in place of the compare-and-exchange (used to test C1).
store_unfollow_pending(cx) ==
  [cx EXCEPT !.state = GUM_EXEC_CTX_UNFOLLOW_PENDING]

\* g_atomic_int_compare_and_exchange (&ctx->state, ACTIVE, UNFOLLOW_PENDING)
cas_unfollow_pending(cx) ==
  IF cx.state = GUM_EXEC_CTX_ACTIVE
    THEN [cx EXCEPT !.state = GUM_EXEC_CTX_UNFOLLOW_PENDING]
    ELSE cx

\* gum_stalker_destroy_exec_ctx: the list without the context, and the
\* context's memory after dispose and free (nothing happens when it is not
\* listed).  A thread that is inside a callback of the context, or holds a
\* pointer to it, is left with a dangling pointer: its c becomes NULL.
InList(list, c) ==
  \E i \in 1..Len(list) : list[i] = c

RemoveCtx(list, c) ==
  SelectSeq(list, LAMBDA x : x # c)

gum_exec_ctx_free(list, c, cx) ==
  IF InList(list, c)
    THEN NoCtx
    ELSE cx

Forget(th, c) ==
  IF th.c = c /\ th.pc \in {"callout", "probe", "found"}
    THEN [th EXCEPT !.c = NULL]
    ELSE th

ForgetIf(destroy, f, c) ==
  IF destroy THEN [u \in Threads |-> Forget(f[u], c)] ELSE f

\* gum_stalker_find_exec_ctx_by_thread_id: the first listed context of the
\* thread, NULL when there is none.
gum_stalker_find_exec_ctx_by_thread_id(thread_id) ==
  LET hits == {i \in 1..Len(contexts) : ctx[contexts[i]].thread_id = thread_id}
  IN IF hits = {} THEN NULL
     ELSE contexts[CHOOSE i \in hits : \A j \in hits : i <= j]

\* The event sink of a context, as the calls of start and stop it has
\* received for the context.
NoCalls == [start |-> 0, stop |-> 0]

gum_event_sink_start(s, c) ==
  [s EXCEPT ![c].start = @ + 1]

\* gum_stalker_destroy_exec_ctx and the sink: a context that was found in
\* the list is disposed of, and its sink is stopped when sink_started says
\* that it was started.
gum_event_sink_stop(s, entry, c, cx) ==
  IF entry /\ cx.sink_started
    THEN [s EXCEPT ![c].stop = @ + 1]
    ELSE s

FreeIds == {c \in CtxIds : ~ctx[c].live}
NewId == CHOOSE c \in FreeIds : \A d \in FreeIds : c <= d

(***************************************************************************)
(* Threads                                                                 *)
(***************************************************************************)
\* pc: "native"     guest or user code running untranslated
\*     "xl"         translated code of context c
\*     "xl_ret"     translated code of context c, just after an excluded-
\*                  range call whose next instruction is at arg
\*     "transform"  the transformer callback, called by gum_exec_ctx_compile_block
\*                  for context c; k says who asked for the block, arg for
\*                  which address
\*     "callout"    a callout of context c
\*     "probe"      a call-probe callback of context c
\*     "at_unfollow_me", "at_deactivate"
\*                  the dispatcher has sent the thread to the function itself
\*     "infected"   stopped at the infect thunk of context c, not yet run
\*     "thunk"      inside the infect thunk
\*     "found"      in gum_stalker_unfollow, holding the context it found;
\*                  k is "stop" when gum_stalker_stop made the call
\*     "stop"       in gum_stalker_stop, at its label rescan
\*     "stop_gc"    in gum_stalker_stop, before gum_stalker_garbage_collect
\*     "destroy"    about to call gum_stalker_destroy_exec_ctx for c
\*     "dispose"    in gum_stalker_destroy_exec_ctx, c unlinked
\*     "exited"     the thread has exited
\*     "zombie"     running the translated code of a freed context
\* xs: the excluded-range calls the thread is inside, innermost last; each
\*     frame holds the context whose translated code made the call and the
\*     value pending_calls had before it.
ThreadInit ==
  [pc |-> "native", c |-> NULL, k |-> "none", arg |-> NULL, xs |-> <<>>]

Running(t) == ~aborted

LifeInit ==
  /\ contexts = <<>>
  /\ ctx = [c \in CtxIds |-> NoCtx]
  /\ tls = [t \in Threads |-> NULL]
  /\ thr = [t \in Threads |-> ThreadInit]
  /\ aborted = FALSE
  /\ sink = [c \in CtxIds |-> NoCalls]

(***************************************************************************)
(* The dispatcher and the functions that ask for a block                   *)
(***************************************************************************)
\* gum_exec_ctx_switch_block up to its call of gum_exec_ctx_obtain_block_for.
\* [next] names the branch taken: "special" (the target is unfollow_me or
\* deactivate), "exit" (the thread-exit implementation), "unfollowed" (the
\* poll finalized the unfollow) or "obtain" (a block is needed).  Targets
\* are guest addresses, so the branch for an address inside the context's
\* own code slabs is not taken.
gum_exec_ctx_switch_block(cx, start_address) ==
  IF start_address \in {ADDR_unfollow_me, ADDR_deactivate}
    THEN [next |-> "special", done |-> FALSE,
          cx |-> [cx EXCEPT !.unfollow_called_while_still_following = TRUE,
                            !.current_block = NULL,
                            !.resume_at = start_address]]
    ELSE IF start_address = ADDR_thread_exit_impl
      THEN [next |-> "exit", done |-> TRUE,
            cx |-> gum_exec_ctx_unfollow(cx, start_address)]
      ELSE IF gum_exec_ctx_maybe_unfollow(cx, start_address).done
        THEN [next |-> "unfollowed", done |-> TRUE,
              cx |-> gum_exec_ctx_maybe_unfollow(cx, start_address).cx]
        ELSE [next |-> "obtain", done |-> FALSE, cx |-> cx]

\* A dispatcher that does not poll after the block is there (used to test
\* C29).
switch_block_without_poll(cx, start_address) ==
  [done |-> FALSE,
   cx |-> [cx EXCEPT !.current_block = start_address,
                     !.resume_at = code_address(start_address)]]

\* The rest of gum_exec_ctx_switch_block, once the block is there; the same
\* lines end gum_exec_ctx_recompile_and_switch_block.
switch_block_obtained(cx, start_address) ==
  LET cx1 == [cx EXCEPT !.current_block = start_address,
                        !.resume_at = code_address(start_address)]
      cx2 == IF start_address = cx1.activation_target
               THEN [cx1 EXCEPT !.activation_target = NULL]
               ELSE cx1
  IN gum_exec_ctx_maybe_unfollow(cx2, start_address)

\* _gum_stalker_do_follow_me and _gum_stalker_do_activate after their call
\* of gum_exec_ctx_obtain_block_for.
follow_me_obtained(cx, ret_addr) ==
  LET r == gum_exec_ctx_maybe_unfollow(
             [cx EXCEPT !.current_block = ret_addr], ret_addr)
  IN IF r.done THEN r
     ELSE [done |-> FALSE, cx |-> [r.cx EXCEPT !.sink_started = TRUE]]

activate_obtained(cx, ret_addr) ==
  gum_exec_ctx_maybe_unfollow([cx EXCEPT !.current_block = ret_addr], ret_addr)

Obtained(k, cx, a) ==
  CASE k = "follow_me" -> follow_me_obtained(cx, a)
    [] k = "activate" -> activate_obtained(cx, a)
    [] OTHER -> switch_block_obtained(cx, a)

\* The caller of gum_exec_ctx_obtain_block_for goes on, the block being
\* there and pending_calls as before the call: on a finalized unfollow the
\* thread is back in the original code, else it enters the block.
\* follow_me alone destroys the context at once.
Resume(t, c, k, a, cx, xs2) ==
  LET r == Obtained(k, [cx EXCEPT !.mappings = @ \cup {a}], a)
      destroy == k = "follow_me" /\ r.done
  IN /\ ctx' = [ctx EXCEPT ![c] =
                  IF destroy THEN gum_exec_ctx_free(contexts, c, r.cx)
                  ELSE r.cx]
     /\ contexts' = IF destroy THEN RemoveCtx(contexts, c) ELSE contexts
     /\ tls' = ClearTlsIf(t, r.done)
     /\ sink' = IF destroy
                  THEN gum_event_sink_stop(sink, InList(contexts, c), c, r.cx)
                  ELSE IF k = "follow_me"
                    THEN gum_event_sink_start(sink, c)
                    ELSE sink
     /\ thr' = ForgetIf(destroy,
                  [thr EXCEPT ![t] =
                     [pc |-> IF r.done THEN "native" ELSE "xl",
                      c |-> IF r.done THEN NULL ELSE c,
                      k |-> "none", arg |-> NULL, xs |-> xs2]], c)

\* gum_exec_ctx_obtain_block_for as its callers see it: a block that has to
\* be compiled takes the thread into the transformer, with pending_calls
\* raised by gum_exec_ctx_compile_block; a block that is reused does not.
Obtain(t, c, k, a, cx, xs2, compile) ==
  IF compile
    THEN /\ ctx' = [ctx EXCEPT ![c] = [cx EXCEPT !.pending_calls = @ + 1]]
         /\ thr' = [thr EXCEPT ![t] =
                      [pc |-> "transform", c |-> c, k |-> k, arg |-> a,
                       xs |-> xs2]]
         /\ UNCHANGED <<contexts, tls, sink>>
    ELSE Resume(t, c, k, a, cx, xs2)

\* An entry gate: gum_exec_ctx_switch_block on context c, in the state cx,
\* for the target a.
EnterGate(t, c, cx, a, xs2, compile) ==
  LET s == gum_exec_ctx_switch_block(cx, a) IN
  IF s.next = "obtain"
    THEN Obtain(t, c, "switch", a, s.cx, xs2, compile)
    ELSE /\ ctx' = [ctx EXCEPT ![c] = s.cx]
         /\ tls' = ClearTlsIf(t, s.done)
         /\ thr' = [thr EXCEPT ![t] =
                      [pc |-> CASE s.next = "exit" -> "exited"
                                [] s.next = "unfollowed" -> "native"
                                [] a = ADDR_unfollow_me -> "at_unfollow_me"
                                [] OTHER -> "at_deactivate",
                       c |-> NULL, k |-> "none", arg |-> NULL, xs |-> xs2]]
         /\ UNCHANGED <<contexts, sink>>

MustCompile(cx, a, compile) ==
  a \notin cx.mappings => compile

(***************************************************************************)
(* Actions of the life cycle                                               *)
(***************************************************************************)
\* _gum_stalker_do_follow_me, up to the transformer call inside
\* gum_exec_ctx_obtain_block_for (the new context has no blocks).
FollowMe(t) ==
  /\ Running(t)
  /\ t \in Guests
  /\ thr[t].pc = "native"
  /\ thr[t].xs = <<>>
  /\ FreeIds # {}
  /\ \E a \in GuestAddrs :
       LET c == NewId IN
       /\ contexts' = <<c>> \o contexts
       /\ ctx' = [ctx EXCEPT ![c] =
                    [gum_exec_ctx_new(t) EXCEPT !.pending_calls = 1]]
       /\ tls' = [tls EXCEPT ![t] = c]
       /\ sink' = [sink EXCEPT ![c] = NoCalls]
       /\ thr' = [thr EXCEPT ![t] =
                    [@ EXCEPT !.pc = "transform", !.c = c,
                              !.k = "follow_me", !.arg = a]]
  /\ UNCHANGED aborted
  /\ UNCHANGED notLifeVars

\* The transformer returns: gum_exec_ctx_compile_block lowers pending_calls
\* and the function that asked for the block goes on.
TransformReturn(t) ==
  /\ Running(t)
  /\ thr[t].pc = "transform"
  /\ LET c == thr[t].c IN
       Resume(t, c, thr[t].k, thr[t].arg,
              [ctx[c] EXCEPT !.pending_calls = @ - 1], thr[t].xs)
  /\ UNCHANGED aborted
  /\ UNCHANGED notLifeVars

\* Translated code leaves a block through an entry gate.  After an
\* excluded-range call ("xl_ret") the gate is excluded_call_imm and the
\* target the instruction after the call.
Gate(t) ==
  /\ Running(t)
  /\ thr[t].pc \in {"xl", "xl_ret"}
  /\ LET c == thr[t].c IN
     \E a \in GuestAddrs \cup SpecialAddrs, compile \in BOOLEAN :
       /\ thr[t].pc = "xl_ret" => a = thr[t].arg
       /\ MustCompile(ctx[c], a, compile)
       /\ EnterGate(t, c, ctx[c], a, thr[t].xs, compile)
  /\ UNCHANGED aborted
  /\ UNCHANGED notLifeVars

\* gum_exec_ctx_recompile_and_switch_block: the thread has entered a block
\* whose code gum_exec_block_invalidate replaced by the trampoline.
RecompileAndSwitchBlock(t) ==
  /\ Running(t)
  /\ thr[t].pc = "xl"
  /\ LET c == thr[t].c IN
     \E a \in ctx[c].mappings :
       LET r == gum_exec_ctx_maybe_unfollow(ctx[c], a) IN
       IF r.done
         THEN /\ ctx' = [ctx EXCEPT ![c] = r.cx]
              /\ tls' = ClearTlsIf(t, TRUE)
              /\ thr' = [thr EXCEPT ![t] =
                           [@ EXCEPT !.pc = "native", !.c = NULL]]
              /\ UNCHANGED <<contexts, sink>>
         ELSE Obtain(t, c, "recompile", a, ctx[c], thr[t].xs, TRUE)
  /\ UNCHANGED aborted
  /\ UNCHANGED notLifeVars

\* An event site of an interruptible block (gum_exec_block_write_unfollow_
\* check_code): the poll, and the jump to resume_at when it says so.
UnfollowCheck(t) ==
  /\ Running(t)
  /\ thr[t].pc = "xl"
  /\ LET c == thr[t].c IN
     \E a \in GuestAddrs :
       LET r == gum_exec_ctx_maybe_unfollow(ctx[c], a) IN
       /\ r.done
       /\ ctx' = [ctx EXCEPT ![c] = r.cx]
       /\ tls' = ClearTlsIf(t, TRUE)
       /\ thr' = [thr EXCEPT ![t] = [@ EXCEPT !.pc = "native", !.c = NULL]]
  /\ UNCHANGED <<contexts, aborted>>
  /\ UNCHANGED sink
  /\ UNCHANGED notLifeVars

\* gum_stalker_unfollow_me, called by native code: the guest itself once
\* the dispatcher has let it through, or a user callback.  g_assert aborts
\* the process, or is compiled out (G_DISABLE_ASSERT): both builds exist.
gum_stalker_unfollow_me(cx) ==
  gum_exec_ctx_maybe_unfollow(
    [cx EXCEPT !.state = GUM_EXEC_CTX_UNFOLLOW_PENDING], NULL)

UnfollowMe(t) ==
  /\ Running(t)
  /\ thr[t].pc \in {"native", "at_unfollow_me", "transform", "callout", "probe"}
  /\ tls[t] # NULL
  /\ LET c == tls[t]
         r == gum_stalker_unfollow_me(ctx[c])
     IN
     \E asserts \in BOOLEAN :
       LET failed == /\ asserts
                     /\ r.done
                     /\ ~r.cx.unfollow_called_while_still_following
           destroy == r.done /\ ~failed
       IN
        /\ ctx' = [ctx EXCEPT ![c] =
                     IF destroy THEN gum_exec_ctx_free(contexts, c, r.cx)
                     ELSE r.cx]
        /\ contexts' = IF destroy THEN RemoveCtx(contexts, c) ELSE contexts
        /\ tls' = ClearTlsIf(t, r.done)
        /\ aborted' = failed
        /\ sink' = IF destroy
                     THEN gum_event_sink_stop(sink, InList(contexts, c), c,
                                              r.cx)
                     ELSE sink
        /\ thr' = ForgetIf(destroy,
                     [thr EXCEPT ![t] =
                        [@ EXCEPT !.pc = IF @ = "at_unfollow_me"
                                           THEN "native" ELSE @]], c)
  /\ UNCHANGED notLifeVars

\* A deactivate that leaves pending_calls alone (used to test C9).
deactivate_without_decrement(cx, ret_addr_in_code) ==
  [cx EXCEPT !.unfollow_called_while_still_following = TRUE,
             !.activation_target = NULL]

\* _gum_stalker_do_deactivate.  The return address lies in the context's
\* code exactly when translated code made the call as an excluded-range
\* call ("at_deactivate_x"): the function then undoes the increment of the
\* call site and returns to pending_return_location, so that the frame of
\* the call is gone without its post-call code having run.
gum_stalker_do_deactivate(cx, ret_addr_in_code) ==
  LET cx1 == [cx EXCEPT !.unfollow_called_while_still_following = TRUE,
                        !.activation_target = NULL]
  IN IF ret_addr_in_code
       THEN [cx1 EXCEPT !.pending_calls = @ - 1]
       ELSE cx1

Deactivate(t) ==
  /\ Running(t)
  /\ thr[t].pc \in {"native", "at_deactivate", "at_deactivate_x"}
  /\ tls[t] # NULL
  /\ LET c == tls[t]
         in_code == thr[t].pc = "at_deactivate_x"
     IN /\ ctx' = [ctx EXCEPT ![c] = gum_stalker_do_deactivate(@, in_code)]
        /\ thr' = [thr EXCEPT ![t] =
                     [@ EXCEPT !.pc = "native",
                               !.xs = IF in_code
                                        THEN SubSeq(@, 1, Len(@) - 1)
                                        ELSE @]]
  /\ UNCHANGED <<contexts, tls, aborted>>
  /\ UNCHANGED sink
  /\ UNCHANGED notLifeVars

\* _gum_stalker_do_activate, called by native code (the return address is
\* not in the context's code).
Activate(t) ==
  /\ Running(t)
  /\ thr[t].pc = "native"
  /\ tls[t] # NULL
  /\ LET c == tls[t] IN
     \E target \in GuestAddrs, a \in GuestAddrs, compile \in BOOLEAN :
       /\ MustCompile(ctx[c], a, compile)
       /\ Obtain(t, c, "activate", a,
                 [ctx[c] EXCEPT !.unfollow_called_while_still_following = FALSE,
                                !.activation_target = target],
                 thr[t].xs, compile)
  /\ UNCHANGED aborted
  /\ UNCHANGED notLifeVars

\* A direct call into an excluded range, as gum_exec_block_virtualize_
\* branch_insn emits it: pending_return_location and pending_calls are
\* written, then the callee runs natively.  The callee is some function of
\* the range, or gum_stalker_deactivate itself.
ExcludedCall(t) ==
  /\ Running(t)
  /\ thr[t].pc = "xl"
  /\ LET c == thr[t].c IN
     /\ ctx[c].pending_calls < MaxPending
     /\ \E ret \in GuestAddrs, callee \in {"function", "deactivate"} :
          /\ ctx' = [ctx EXCEPT ![c] =
                       [@ EXCEPT !.pending_return_location = ret,
                                 !.pending_calls = @ + 1]]
          /\ thr' = [thr EXCEPT ![t] =
                       [@ EXCEPT
                          !.pc = IF callee = "deactivate"
                                   THEN "at_deactivate_x" ELSE "native",
                          !.c = NULL,
                          !.xs = Append(@, [c |-> c, ret |-> ret,
                                            saved |-> ctx[c].pending_calls])]]
  /\ UNCHANGED <<contexts, tls, aborted>>
  /\ UNCHANGED sink
  /\ UNCHANGED notLifeVars

\* The callee returns to the code after the call, which lowers
\* pending_calls; the excluded_call_imm gate comes next (Gate).
ExcludedReturn(t) ==
  /\ Running(t)
  /\ thr[t].pc \in {"native", "xl"}
  /\ thr[t].xs # <<>>
  /\ LET f == thr[t].xs[Len(thr[t].xs)]
         rest == SubSeq(thr[t].xs, 1, Len(thr[t].xs) - 1)
     IN IF ctx[f.c].live
          THEN /\ ctx' = [ctx EXCEPT ![f.c] =
                            [@ EXCEPT !.pending_calls = @ - 1]]
               /\ thr' = [thr EXCEPT ![t] =
                            [@ EXCEPT !.pc = "xl_ret", !.c = f.c,
                                      !.arg = f.ret, !.xs = rest]]
          ELSE /\ thr' = [thr EXCEPT ![t] = [@ EXCEPT !.pc = "zombie"]]
               /\ UNCHANGED ctx
  /\ UNCHANGED <<contexts, tls, aborted>>
  /\ UNCHANGED sink
  /\ UNCHANGED notLifeVars

\* gum_stalker_invoke_callout, around the user's callout.
CalloutEnter(t) ==
  /\ Running(t)
  /\ thr[t].pc = "xl"
  /\ ctx[thr[t].c].pending_calls < MaxPending
  /\ ctx' = [ctx EXCEPT ![thr[t].c] = [@ EXCEPT !.pending_calls = @ + 1]]
  /\ thr' = [thr EXCEPT ![t] = [@ EXCEPT !.pc = "callout"]]
  /\ UNCHANGED <<contexts, tls, aborted>>
  /\ UNCHANGED sink
  /\ UNCHANGED notLifeVars

CalloutReturn(t) ==
  /\ Running(t)
  /\ thr[t].pc = "callout"
  /\ IF thr[t].c # NULL
       THEN /\ ctx' = [ctx EXCEPT ![thr[t].c] =
                         [@ EXCEPT !.pending_calls = @ - 1]]
            /\ thr' = [thr EXCEPT ![t] = [@ EXCEPT !.pc = "xl"]]
       ELSE /\ thr' = [thr EXCEPT ![t] = [@ EXCEPT !.pc = "zombie"]]
            /\ UNCHANGED ctx
  /\ UNCHANGED <<contexts, tls, aborted>>
  /\ UNCHANGED sink
  /\ UNCHANGED notLifeVars

\* gum_exec_block_invoke_call_probes, around a call-probe callback.
ProbeEnter(t) ==
  /\ Running(t)
  /\ thr[t].pc = "xl"
  /\ thr' = [thr EXCEPT ![t] = [@ EXCEPT !.pc = "probe"]]
  /\ UNCHANGED <<contexts, ctx, tls, aborted>>
  /\ UNCHANGED sink
  /\ UNCHANGED notLifeVars

ProbeReturn(t) ==
  /\ Running(t)
  /\ thr[t].pc = "probe"
  /\ thr' = [thr EXCEPT ![t] =
               [@ EXCEPT !.pc = IF thr[t].c # NULL THEN "xl" ELSE "zombie"]]
  /\ UNCHANGED <<contexts, ctx, tls, aborted>>
  /\ UNCHANGED sink
  /\ UNCHANGED notLifeVars

\* gum_stalker_follow of another thread: gum_stalker_infect runs on the
\* caller while the target is stopped in original code.  It creates the
\* context, obtains the first block, polls, and points the target at the
\* infect thunk; it starts the sink without recording so in sink_started.
gum_stalker_infect(thread_id, pc) ==
  gum_exec_ctx_maybe_unfollow(
    [gum_exec_ctx_new(thread_id) EXCEPT !.current_block = pc,
                                        !.mappings = {pc}], NULL)

Follow(t, u) ==
  /\ Running(t)
  /\ t # u
  /\ u \in Guests
  /\ thr[t].pc = "native"
  /\ thr[u].pc = "native"
  /\ thr[u].xs = <<>>
  /\ FreeIds # {}
  /\ \E a \in GuestAddrs :
       LET c == NewId
           r == gum_stalker_infect(u, a)
       IN /\ ctx' = [ctx EXCEPT ![c] =
                       IF r.done
                         THEN gum_exec_ctx_free(<<c>>, c, r.cx)
                         ELSE r.cx]
          /\ contexts' = IF r.done THEN contexts ELSE <<c>> \o contexts
          /\ tls' = ClearTlsIf(t, r.done)
          /\ sink' = IF r.done
                       THEN gum_event_sink_stop(
                              [sink EXCEPT ![c] = NoCalls], TRUE, c, r.cx)
                       ELSE gum_event_sink_start(
                              [sink EXCEPT ![c] = NoCalls], c)
          /\ thr' = IF r.done THEN thr
                    ELSE [thr EXCEPT ![u] =
                            [@ EXCEPT !.pc = "infected", !.c = c]]
  /\ UNCHANGED aborted
  /\ UNCHANGED notLifeVars

\* The infect thunk, run by the followed thread: it leaves infect_body,
\* stores the context in the TLS slot and jumps to the first block.
ThunkEnter(t) ==
  /\ Running(t)
  /\ thr[t].pc = "infected"
  /\ thr' = [thr EXCEPT ![t] = [@ EXCEPT !.pc = "thunk"]]
  /\ UNCHANGED <<contexts, ctx, tls, aborted>>
  /\ UNCHANGED sink
  /\ UNCHANGED notLifeVars

ThunkDone(t) ==
  /\ Running(t)
  /\ thr[t].pc = "thunk"
  /\ tls' = [tls EXCEPT ![t] = thr[t].c]
  /\ thr' = [thr EXCEPT ![t] = [@ EXCEPT !.pc = "xl"]]
  /\ UNCHANGED <<contexts, ctx, aborted>>
  /\ UNCHANGED sink
  /\ UNCHANGED notLifeVars

\* gum_stalker_unfollow of another thread, first half: the context is
\* looked up under the engine's lock.
UnfollowFind(t, u) ==
  /\ Running(t)
  /\ t # u
  /\ u \in Guests
  /\ thr[t].pc = "native"
  /\ gum_stalker_find_exec_ctx_by_thread_id(u) # NULL
  /\ thr' = [thr EXCEPT ![t] =
               [@ EXCEPT !.pc = "found", !.arg = u,
                         !.c = gum_stalker_find_exec_ctx_by_thread_id(u)]]
  /\ UNCHANGED <<contexts, ctx, tls, aborted>>
  /\ UNCHANGED sink
  /\ UNCHANGED notLifeVars

\* gum_stalker_disinfect succeeds when the thread still stands at the
\* infect thunk of this context.
gum_stalker_disinfect(c, thread) ==
  thread.pc = "infected" /\ thread.c = c

\* Second half: the compare-and-exchange and, for a context that has not
\* executed, the disinfection.  The context may have been freed since it
\* was found; touching it then is undefined: the write is lost or the
\* process dies.
UnfollowApply(t) ==
  /\ Running(t)
  /\ thr[t].pc = "found"
  /\ LET c == thr[t].c
         u == thr[t].arg
         back == [thr EXCEPT ![t] =
                    [@ EXCEPT !.pc = IF thr[t].k = "stop" THEN "stop" ELSE "native",
                              !.c = NULL, !.arg = NULL]]
     IN IF c # NULL
          THEN LET cx1 == cas_unfollow_pending(ctx[c])
                   disinfected == /\ ctx[c].state = GUM_EXEC_CTX_ACTIVE
                                  /\ ~gum_exec_ctx_has_executed(cx1)
                                  /\ gum_stalker_disinfect(c, thr[u])
               IN /\ ctx' = [ctx EXCEPT ![c] =
                               IF disinfected
                                 THEN gum_exec_ctx_free(contexts, c, cx1)
                                 ELSE cx1]
                  /\ contexts' = IF disinfected THEN RemoveCtx(contexts, c)
                                 ELSE contexts
                  /\ thr' = IF disinfected
                              THEN [back EXCEPT ![u] =
                                      [@ EXCEPT !.pc = "native", !.c = NULL]]
                              ELSE back
                  /\ sink' = IF disinfected
                               THEN gum_event_sink_stop(
                                      sink, InList(contexts, c), c, cx1)
                               ELSE sink
                  /\ UNCHANGED aborted
          ELSE /\ aborted' \in BOOLEAN
               /\ thr' = back
               /\ UNCHANGED <<contexts, ctx, sink>>
  /\ UNCHANGED tls
  /\ UNCHANGED notLifeVars

\* The guest thread ends without passing an entry gate with the address of
\* the thread-exit implementation: it makes the system call in code the
\* engine does not see, or on a system where
\* gum_find_thread_exit_implementation returns NULL.  Its contexts stay as
\* they are.
ThreadExit(t) ==
  /\ Running(t)
  /\ t \in Guests
  /\ thr[t].pc \in {"native", "xl"}
  /\ thr' = [thr EXCEPT ![t] = [@ EXCEPT !.pc = "exited", !.c = NULL]]
  /\ UNCHANGED <<contexts, ctx, tls, aborted>>
  /\ UNCHANGED sink
  /\ UNCHANGED notLifeVars

\* A test that does not look at the state of the context (used to test
\* C19).
thread_likely_back_in_original_code(cx, t, elapsed) ==
  cx.thread_id = t \/ elapsed

\* gum_stalker_garbage_collect, one turn of its rescan loop: a listed
\* context is destroyed when it is destroy_pending and either belongs to
\* the caller or has been so for 20 ms, or when its thread is gone.
destroy_pending_and_thread_likely_back_in_original_code(cx, t, elapsed) ==
  /\ cx.state = GUM_EXEC_CTX_DESTROY_PENDING
  /\ (cx.thread_id = t \/ elapsed)

gum_process_has_thread(thread_id) ==
  thr[thread_id].pc # "exited"

GarbageCollect(t) ==
  /\ Running(t)
  /\ thr[t].pc = "native"
  /\ \E i \in 1..Len(contexts), elapsed \in BOOLEAN :
       LET c == contexts[i] IN
       /\ \/ destroy_pending_and_thread_likely_back_in_original_code(
               ctx[c], t, elapsed)
          \/ ~gum_process_has_thread(ctx[c].thread_id)
       /\ ctx' = [ctx EXCEPT ![c] = gum_exec_ctx_free(contexts, c, @)]
       /\ contexts' = RemoveCtx(contexts, c)
       /\ sink' = gum_event_sink_stop(sink, TRUE, c, ctx[c])
       /\ thr' = ForgetIf(TRUE, thr, c)
  /\ UNCHANGED <<tls, aborted>>
  /\ UNCHANGED notLifeVars

Next ==
  \/ \E t \in Threads : FollowMe(t)
  \/ \E t \in Threads : TransformReturn(t)
  \/ \E t \in Threads : Gate(t)
  \/ \E t \in Threads : RecompileAndSwitchBlock(t)
  \/ \E t \in Threads : UnfollowCheck(t)
  \/ \E t \in Threads : UnfollowMe(t)
  \/ \E t \in Threads : Deactivate(t)
  \/ \E t \in Threads : Activate(t)
  \/ \E t \in Threads : ExcludedCall(t)
  \/ \E t \in Threads : ExcludedReturn(t)
  \/ \E t \in Threads : CalloutEnter(t)
  \/ \E t \in Threads : CalloutReturn(t)
  \/ \E t \in Threads : ProbeEnter(t)
  \/ \E t \in Threads : ProbeReturn(t)
  \/ \E t, u \in Threads : Follow(t, u)
  \/ \E t \in Threads : ThunkEnter(t)
  \/ \E t \in Threads : ThunkDone(t)
  \/ \E t, u \in Threads : UnfollowFind(t, u)
  \/ \E t \in Threads : UnfollowApply(t)
  \/ \E t \in Threads : GarbageCollect(t)
  \/ \E t \in Threads : ThreadExit(t)

(***************************************************************************)
(* Claims about the life cycle (checked under Spec)                        *)
(***************************************************************************)
\* C1: the state of an execution context only moves forward, from active to
\* unfollow_pending to destroy_pending, whatever the threads do: it never
\* returns to active and never leaves destroy_pending.
C1_StateOnlyMovesForward ==
  [][\A c \in CtxIds :
       ctx[c].live /\ ctx'[c].live => ctx'[c].state >= ctx[c].state]_vars

\* A context that a poll has taken from unfollow_pending to destroy_pending.
C1_Witness ==
  \E c \in CtxIds :
    /\ ctx[c].state = GUM_EXEC_CTX_DESTROY_PENDING
    /\ ctx[c].resume_at \in GuestAddrs

\* C3 as stated: a context that is unfollow_pending never becomes
\* destroy_pending while its pending_calls is above zero.
C3_NeverFinalizedWhilePending ==
  [][\A c \in CtxIds :
       (/\ ctx[c].live
        /\ ctx[c].state = GUM_EXEC_CTX_UNFOLLOW_PENDING
        /\ ctx'[c].state = GUM_EXEC_CTX_DESTROY_PENDING)
       => ctx'[c].pending_calls = 0]_vars

\* C3, amended: a poll that sees unfollow_pending with pending_calls above
\* zero returns FALSE and leaves the context (state, resume_at) as it is, so
\* that the TLS slot stays too; and a context that is unfollow_pending
\* becomes destroy_pending with pending_calls above zero only when the
\* dispatcher is entered for the thread-exit implementation.
C3_PollDefersWhilePending ==
  [][\A c \in CtxIds :
       /\ (/\ ctx[c].live
           /\ ctx[c].state = GUM_EXEC_CTX_UNFOLLOW_PENDING
           /\ ctx[c].pending_calls > 0)
          => \A a \in GuestAddrs \cup {NULL} :
               gum_exec_ctx_maybe_unfollow(ctx[c], a) =
                 [done |-> FALSE, cx |-> ctx[c]]
       /\ (/\ ctx[c].live
           /\ ctx[c].state = GUM_EXEC_CTX_UNFOLLOW_PENDING
           /\ ctx'[c].state = GUM_EXEC_CTX_DESTROY_PENDING
           /\ ctx'[c].pending_calls > 0)
          => ctx'[c].resume_at = ADDR_thread_exit_impl]_vars

\* unfollow_me has been called inside a callout: the poll deferred it.
C3_Witness ==
  \E t \in Threads :
    /\ thr[t].pc = "callout"
    /\ tls[t] = thr[t].c
    /\ ctx[thr[t].c].state = GUM_EXEC_CTX_UNFOLLOW_PENDING
    /\ ctx[thr[t].c].pending_calls > 0

\* C9: when a direct call into an excluded range is over, pending_calls has
\* the value it had before the call, whether the callee returned to the code
\* after the call or was gum_stalker_deactivate, which lowers the counter
\* itself and returns to pending_return_location.
C9_ExcludedCallRestoresPendingCalls ==
  [][\A t \in Threads :
       Len(thr'[t].xs) < Len(thr[t].xs) =>
         LET f == thr[t].xs[Len(thr[t].xs)] IN
         /\ ctx'[f.c].pending_calls = f.saved
         /\ thr'[t].pc = "native" =>
              ctx'[f.c].pending_return_location = f.ret]_vars

\* A callee has returned to the code after the call.
C9_Witness ==
  \E t \in Threads :
    /\ thr[t].pc = "xl_ret"
    /\ ctx[thr[t].c].pending_return_location = thr[t].arg
    /\ ctx[thr[t].c].unfollow_called_while_still_following

\* C10 as stated: in every excursion out of translated code (excluded-range
\* callee, transformer, callout, call-probe callback) pending_calls of the
\* context is above zero and the context is not finalized.
C10_ExcursionsHoldPendingCalls ==
  \A t \in Threads :
    /\ thr[t].pc \in {"transform", "callout", "probe"} =>
         /\ ctx[thr[t].c].pending_calls > 0
         /\ ctx[thr[t].c].state # GUM_EXEC_CTX_DESTROY_PENDING
    /\ thr[t].pc \in {"native", "xl", "at_deactivate_x"} =>
         \A i \in 1..Len(thr[t].xs) :
           /\ ctx[thr[t].xs[i].c].pending_calls > 0
           /\ ctx[thr[t].xs[i].c].state # GUM_EXEC_CTX_DESTROY_PENDING

\* Context c is taken off the engine's list by a call of
\* gum_stalker_garbage_collect.
Collected(c) ==
  /\ \E t \in Threads : GarbageCollect(t)
  /\ InList(contexts, c)
  /\ ~InList(contexts', c)

FollowingContexts(t) ==
  {c \in CtxIds :
     /\ InList(contexts, c)
     /\ ctx[c].thread_id = t
     /\ ctx[c].state # GUM_EXEC_CTX_DESTROY_PENDING}

\* C20: the engine's list holds at most one context that is not
\* destroy_pending for a thread id, whatever follow_me, follow and unfollow
\* calls are made, also for a thread that is followed already.
C20_OneContextPerThread ==
  \A t \in Threads : Cardinality(FollowingContexts(t)) <= 1

\* The dispatcher, in its last case, has had the block for thr[t].arg
\* compiled and returns in this step.
SwitchBlockReturns(t) ==
  /\ thr[t].pc = "transform"
  /\ thr[t].k = "switch"
  /\ thr'[t].pc # "transform"

\* C29 as stated: whenever gum_exec_ctx_switch_block reaches its last case
\* it returns the code_start of the block mapped at the target, whatever
\* other threads and the transformer do in the meantime.
C29_LastCaseReturnsCodeStart ==
  [][\A t \in Threads :
       SwitchBlockReturns(t) =>
         ctx'[thr[t].c].resume_at = code_address(thr[t].arg)]_vars

\* C29: in its last case gum_exec_ctx_switch_block returns the code_start
\* of the block mapped at the target, unless an unfollow is pending when
\* the block is there and no call is pending: it then returns the target
\* itself and the thread is back in the original code.
C29_LastCaseReturnsCodeStartUnlessUnfollowed ==
  [][\A t \in Threads :
       /\ SwitchBlockReturns(t) =>
            LET c == thr[t].c
                a == thr[t].arg
            IN IF /\ ctx[c].state = GUM_EXEC_CTX_UNFOLLOW_PENDING
                  /\ ctx[c].pending_calls = 1
                 THEN /\ ctx'[c].resume_at = a
                      /\ ctx'[c].state = GUM_EXEC_CTX_DESTROY_PENDING
                      /\ thr'[t].pc = "native"
                 ELSE /\ ctx'[c].resume_at = code_address(a)
                      /\ a \in ctx'[c].mappings
                      /\ thr'[t].pc = "xl"
       /\ (Gate(t) /\ thr'[t].pc = "xl") =>
            /\ ctx'[thr[t].c].current_block \in ctx'[thr[t].c].mappings
            /\ ctx'[thr[t].c].resume_at =
                 code_address(ctx'[thr[t].c].current_block)]_vars

\* The dispatcher is in its last case, the transformer at work, and an
\* unfollow has become pending that the poll after the compilation will
\* finalize.
C29_Witness ==
  \E t \in Threads :
    /\ thr[t].pc = "transform"
    /\ thr[t].k = "switch"
    /\ ctx[thr[t].c].state = GUM_EXEC_CTX_UNFOLLOW_PENDING
    /\ ctx[thr[t].c].pending_calls = 1

\* C37: no operation uses an execution context after it has been freed.
\* gum_stalker_unfollow of another thread takes the context from the
\* engine's list under the lock and uses it after the lock is released:
\* at that use, the compare-and-exchange on ctx->state, the context the
\* thread holds is still live.
C37_FoundContextLiveWhenUsed ==
  [][\A t \in Threads :
       (thr[t].pc = "found" /\ thr'[t].pc # "found")
         => (thr[t].c # NULL /\ ctx[thr[t].c].live)]_vars

\* C38: the event sink's stop() is called exactly once before a context is
\* freed if and only if its start() was called for that context, whoever
\* created the context and whichever path destroys it: the sink of a
\* context never gets more than one stop, and that of a context that has
\* been freed has got one exactly when it was started.
C38_SinkStoppedIffStarted ==
  \A c \in CtxIds :
    /\ sink[c].stop <= 1
    /\ ~ctx[c].live => (sink[c].stop = 1 <=> sink[c].start >= 1)

\* The step in which gum_stalker_unfollow_me, called by thread t, finalizes
\* the unfollow: the poll has cleared the TLS slot, and the function has
\* gone on to its assertion and the destruction of the context.
UnfollowMeFinalizes(t) ==
  /\ tls[t] # NULL
  /\ tls'[t] = NULL
  /\ thr[t].pc \in {"native", "at_unfollow_me", "transform", "callout", "probe"}
  /\ thr[t].pc = "transform" => thr'[t].pc = "transform"
  /\ ~ctx'[tls[t]].live \/ aborted'

\* C39: the assertion in gum_stalker_unfollow_me holds: whenever
\* gum_stalker_unfollow_me itself finalizes the unfollow (the caller has a
\* context in its TLS slot and pending_calls is 0),
\* unfollow_called_while_still_following is true, wherever the call comes
\* from.
C39_UnfollowMeAssertionHolds ==
  [][\A t \in Threads :
       UnfollowMeFinalizes(t)
         => ctx[tls[t]].unfollow_called_while_still_following]_vars

\* C40: the TLS slot of every thread is null or holds a live context whose
\* thread_id is the thread, and a context stays in the slot of its thread
\* until the unfollow of that same context is finalized: the slot changes
\* only to null, and only in a step that leaves the context
\* destroy_pending or destroyed.  Operations of other threads never change
\* it.
C40_TlsSlotHoldsOwnContext ==
  /\ [](\A t \in Threads :
          (gum_process_has_thread(t) /\ tls[t] # NULL)
            => (ctx[tls[t]].live /\ ctx[tls[t]].thread_id = t))
  /\ [][\A t \in Threads :
          (tls[t] # NULL /\ tls'[t] # tls[t])
            => /\ tls'[t] = NULL
               /\ \/ ~ctx'[tls[t]].live
                  \/ ctx'[tls[t]].state = GUM_EXEC_CTX_DESTROY_PENDING]_vars

(***************************************************************************)
(* The shadow stack of return addresses                                    *)
(***************************************************************************)
\* The frames of a context fill one page.  first_frame is the last slot of
\* the page; the stack grows down from it, and the slot at first_frame
\* itself is never written.  Bounds: the slots of a page, the distinct
\* return addresses, and the words on the guest's stack.
FramesPerPage == 3
NRet == 2
MaxStack == 3

Cells == 0..(FramesPerPage - 1)
RetAddrs == 1..NRet
\* The words the guest's stack can hold: 0, the guest's return addresses,
\* and addresses inside the context's code slabs.
SlabAddrs == {code_address(r) : r \in RetAddrs}
Words == (0..NRet) \cup SlabAddrs

first_frame == FramesPerPage - 1
frame_capacity == FramesPerPage - 1

NoFrame == [real_address |-> NULL, code_address |-> NULL]

\* gum_exec_ctx_new: the memory comes zeroed from gum_memory_allocate.
FramesInit ==
  /\ frames = [i \in Cells |-> NoFrame]
  /\ current_frame = first_frame
  /\ app_stack = <<>>
  /\ last_insn = "none"
  /\ escaped = FALSE

\* depth, as gum_exec_ctx_emit_call_event and _ret_event compute it.
depth == first_frame - current_frame

\* The push helper: nothing is pushed when current_frame is page-aligned,
\* else the frame goes below current_frame.
stack_push(fr, cf, real, code) ==
  IF cf % FramesPerPage = 0
    THEN [frames |-> fr, current_frame |-> cf]
    ELSE [frames |-> [fr EXCEPT ![cf - 1] =
                        [real_address |-> real, code_address |-> code]],
          current_frame |-> cf - 1]

\* The walk of the pop-and-go helper over the context's code slabs.
slab_contains(address) ==
  address \in SlabAddrs

\* A helper that clears the stack on the slow path only (used to test
\* C33).
pop_and_go_clearing_late(fr, cf, top) ==
  IF fr[cf].real_address = top
    THEN [fast |-> TRUE, path |-> "fast", current_frame |-> cf + 1,
          target |-> fr[cf].code_address]
    ELSE IF slab_contains(top)
      THEN [fast |-> FALSE, path |-> "slab", current_frame |-> cf,
            target |-> top]
      ELSE [fast |-> FALSE, path |-> "slow", current_frame |-> first_frame,
            target |-> code_address(top)]

\* The pop-and-go helper: the fast path when the frame at current_frame
\* holds the return address on top of the guest's stack, which then gives
\* way to the frame's code address; else the stack is cleared, and the
\* thread returns to the address itself when a code slab holds it, or to
\* what the ret_slow_path gate makes of it ([fast] is FALSE).
stack_pop_and_go(fr, cf, top) ==
  IF fr[cf].real_address = top
    THEN [fast |-> TRUE, path |-> "fast", current_frame |-> cf + 1,
          target |-> fr[cf].code_address]
    ELSE IF slab_contains(top)
      THEN [fast |-> FALSE, path |-> "slab", current_frame |-> first_frame,
            target |-> top]
      ELSE [fast |-> FALSE, path |-> "slow", current_frame |-> first_frame,
            target |-> code_address(top)]

\* A translated call: the return address goes on the guest's stack and the
\* push helper records it.  [before] remembers current_frame at the call.
Call(r) ==
  /\ ~escaped
  /\ Len(app_stack) < MaxStack
  /\ LET p == stack_push(frames, current_frame, r, code_address(r)) IN
       /\ frames' = p.frames
       /\ current_frame' = p.current_frame
  /\ app_stack' = Append(app_stack,
                    [word |-> r, call |-> TRUE, before |-> current_frame])
  /\ last_insn' = "call"
  /\ UNCHANGED escaped
  /\ UNCHANGED notFrameVars

\* The guest pushes a word of its own.
GuestPush(w) ==
  /\ ~escaped
  /\ Len(app_stack) < MaxStack
  /\ app_stack' = Append(app_stack,
                    [word |-> w, call |-> FALSE, before |-> NULL])
  /\ last_insn' = "push"
  /\ UNCHANGED <<frames, current_frame, escaped>>
  /\ UNCHANGED notFrameVars

\* A translated ret; last_insn keeps the path the helper took.  A return
\* to address 0 takes the thread out of the translated code.
Ret ==
  /\ ~escaped
  /\ app_stack # <<>>
  /\ LET top == app_stack[Len(app_stack)]
         p == stack_pop_and_go(frames, current_frame, top.word)
     IN /\ current_frame' = p.current_frame
        /\ escaped' = (p.target = NULL)
        /\ last_insn' = p.path
  /\ app_stack' = SubSeq(app_stack, 1, Len(app_stack) - 1)
  /\ UNCHANGED frames
  /\ UNCHANGED notFrameVars

FramesNext ==
  \/ \E r \in RetAddrs : Call(r)
  \/ \E w \in Words : GuestPush(w)
  \/ Ret

\* C8 as stated: the depth of the shadow stack stays between zero and the
\* capacity of the frames page, and a ret that directly follows its call,
\* with the call's return address on top of the guest's stack, puts
\* current_frame back to where it was before the call.
C8_ShadowStackBalanced ==
  /\ [](depth >= 0 /\ depth <= frame_capacity)
  /\ [][(/\ last_insn = "call"
         /\ Len(app_stack') < Len(app_stack))
        => current_frame' = app_stack[Len(app_stack)].before]_vars

\* C26: with the shadow stack full (current_frame at the page-aligned base
\* of the frames page) the push helper writes no frame and leaves
\* current_frame where it is, so that current_frame never goes below the
\* base; and the ret that matches a call whose push was skipped misses the
\* fast path of the pop-and-go helper.
C26_FullStackSkipsPushRetMisses ==
  /\ [](current_frame >= 0)
  /\ [][(last_insn' = "call" /\ current_frame % FramesPerPage = 0)
          => (frames' = frames /\ current_frame' = current_frame)]_vars
  /\ [][(/\ Len(app_stack') < Len(app_stack)
         /\ app_stack[Len(app_stack)].call
         /\ app_stack[Len(app_stack)].before % FramesPerPage = 0)
        => ~stack_pop_and_go(frames, current_frame,
                             app_stack[Len(app_stack)].word).fast]_vars

\* C32: the ret helper takes the fast path if and only if the return
\* address on top of the guest's stack equals the real_address of the frame
\* at current_frame; it then returns to that frame's code_address and pops
\* exactly one frame.  With an empty shadow stack (current_frame =
\* first_frame) the fast path is never taken, whatever the return address.
C32_FastPathIffTopMatchesFrame ==
  [][Len(app_stack') < Len(app_stack) =>
       LET top == app_stack[Len(app_stack)].word IN
         /\ last_insn' = "fast" <=> frames[current_frame].real_address = top
         /\ last_insn' = "fast" =>
              /\ current_frame' = current_frame + 1
              /\ escaped' = (frames[current_frame].code_address = NULL)
         /\ current_frame = first_frame => last_insn' # "fast"]_vars

\* C33 as stated: a ret that misses the fast path and whose return address
\* lies inside a code slab leaves current_frame as it was.
C33_SlabPathKeepsShadowStack ==
  [][last_insn' = "slab" /\ Len(app_stack') < Len(app_stack)
       => current_frame' = current_frame]_vars

\* C33: a ret that misses the fast path clears the shadow stack, whether
\* its return address lies inside a code slab, to which it then jumps
\* directly, or is resolved on the slow path.
C33_MissClearsShadowStack ==
  [][Len(app_stack') < Len(app_stack) =>
       LET top == app_stack[Len(app_stack)].word IN
         /\ frames[current_frame].real_address # top
              => /\ current_frame' = first_frame
                 /\ last_insn' = IF top \in SlabAddrs THEN "slab" ELSE "slow"
         /\ last_insn' # "fast" => current_frame' = first_frame]_vars

\* A ret with frames on the shadow stack has returned into a code slab.
C33_Witness ==
  /\ last_insn = "slab"
  /\ current_frame = first_frame
  /\ \E i \in Cells : i < first_frame /\ frames[i] # NoFrame

(***************************************************************************)
(* The block store of one context                                          *)
(***************************************************************************)
\* Guest code is a row of one-byte instructions: two plain ones, which the
\* relocator copies as they are, and ret, which ends a block.  The last
\* byte of the guest's code is a ret that is never overwritten.  In the
\* code slab a byte is 0 while unwritten, a copied instruction, a snapshot
\* byte, or one of the engine's own codes.
INSN_A == 1
INSN_B == 2
INSN_RET == 3
CODE_CALLOUT == 5
CODE_TRAMPOLINE == 6
CODE_TRANSFER == 7
CODE_BREAKPOINT == 8
CODE_JMP == 9
GuestBytes == {INSN_A, INSN_B, INSN_RET}

\* Bounds: the bytes of guest code, the bytes a transformer adds to a
\* block, the size of the code slab, the block records, the values of the
\* trust threshold (from -1), and the count to which blocks are recycled.
MemSize == 2
MaxExtra == 1
SlabSize == 12
MaxBlocks == 3
MaxTrust == 1
MaxRecycle == 2

MemCells == 1..MemSize
BlockStarts == {1}
SlabCells == 0..(SlabSize - 1)
BlockIds == 1..MaxBlocks
TrustThresholds == (0 - 1)..MaxTrust
Callers == {1, 2}
MaxBlockSize == (MaxExtra + MemSize + 1) + MemSize

NoBlock ==
  [used |-> FALSE, real_start |-> NULL, real_size |-> 0,
   code_start |-> 0, code_size |-> 0, capacity |-> 0,
   recycle_count |-> 0, storage_block |-> NULL,
   compiled_mem |-> <<>>]

NoCall == [pc |-> "idle", addr |-> NULL, blk |-> NULL, tt |-> 0]

\* gum_stalker_init sets trust_threshold to 1; the guest's code is whatever
\* the application holds.
BlocksInit ==
  /\ mem = [i \in MemCells |-> IF i = MemSize THEN INSN_RET ELSE INSN_A]
  /\ slab = [i \in SlabCells |-> 0]
  /\ offset = 0
  /\ blocks = [b \in BlockIds |-> NoBlock]
  /\ mappings = [a \in BlockStarts |-> NULL]
  /\ installed = [a \in BlockStarts |-> {}]
  /\ trust_threshold = 1
  /\ code_lock = NULL
  /\ call = [p \in Callers |-> NoCall]

\* The bytes of guest memory m from address a on, n of them.
BytesAt(m, a, n) ==
  [i \in 1..n |-> m[a + i - 1]]

\* What the relocator reads of a block: the instructions up to its ret.
input_size(m, a) ==
  CHOOSE n \in 1..(MemSize - a + 1) :
    /\ m[a + n - 1] = INSN_RET
    /\ \A k \in 1..(n - 1) : m[a + k - 1] # INSN_RET

\* gum_exec_ctx_compile_block: the transformer's own code (extra bytes of
\* it), the copied instructions, the transfer code for the ret and the
\* breakpoint that ends every block.
compile_block(m, a, extra) ==
  [i \in 1..extra |-> CODE_CALLOUT]
    \o BytesAt(m, a, input_size(m, a) - 1)
    \o <<CODE_TRANSFER, CODE_BREAKPOINT>>

\* memcpy into the slab.
WriteAt(s, at, bytes) ==
  [i \in SlabCells |->
     IF i >= at /\ i < at + Len(bytes) THEN bytes[i - at + 1] ELSE s[i]]

gum_stalker_snapshot_space_needed_for(tt, real_size) ==
  IF tt # 0 THEN real_size ELSE 0

gum_exec_block_get_snapshot_start(b) ==
  b.code_start + b.code_size

\* The bytes at the snapshot location of block b, real_size of them.
SnapshotOf(s, b) ==
  [i \in 1..b.real_size |-> s[gum_exec_block_get_snapshot_start(b) + i - 1]]

\* A test that trusts a block whatever the sign of the threshold (used to
\* test C11).
up_to_date_without_sign_check(tt, b, m, s) ==
  \/ b.recycle_count >= tt
  \/ BytesAt(m, b.real_start, b.real_size) = SnapshotOf(s, b)

\* A test that never trusts a block and always compares (used to test C12
\* and C14).
up_to_date_by_compare_only(tt, b, m, s) ==
  BytesAt(m, b.real_start, b.real_size) = SnapshotOf(s, b)

\* A test that never compares (used to test C13 and C16).
up_to_date_without_compare(tt, b, m, s) ==
  tt >= 0 /\ b.recycle_count >= tt

\* A test that trusts a block one call later (used to test C15).
up_to_date_only_above_threshold(tt, b, m, s) ==
  \/ tt >= 0 /\ b.recycle_count > tt
  \/ BytesAt(m, b.real_start, b.real_size) = SnapshotOf(s, b)

\* The test of gum_exec_ctx_obtain_block_for on a block it has found.
still_up_to_date(tt, b, m, s) ==
  \/ tt >= 0 /\ b.recycle_count >= tt
  \/ BytesAt(m, b.real_start, b.real_size) = SnapshotOf(s, b)

\* gum_exec_block_new: the next unused record, its code at the cursor.
FreeBlocks == {b \in BlockIds : ~blocks[b].used}
NewBlock == CHOOSE b \in FreeBlocks : \A d \in FreeBlocks : b <= d
CanAllocate == FreeBlocks # {} /\ offset + MaxBlockSize <= SlabSize

\* A block compiled at the cursor and committed: its record, and the slab
\* with its code and (gum_exec_block_commit) its snapshot.
committed_block(m, a, extra) ==
  LET code == compile_block(m, a, extra)
      real_size == input_size(m, a)
      snapshot_size ==
        gum_stalker_snapshot_space_needed_for(trust_threshold, real_size)
  IN [NoBlock EXCEPT !.used = TRUE, !.real_start = a,
                     !.real_size = real_size,
                     !.code_start = offset, !.code_size = Len(code),
                     !.capacity = Len(code) + snapshot_size,
                     !.compiled_mem = m]

committed_slab(s, m, a, extra) ==
  LET code == compile_block(m, a, extra)
      real_size == input_size(m, a)
      snapshot_size ==
        gum_stalker_snapshot_space_needed_for(trust_threshold, real_size)
  IN WriteAt(WriteAt(s, offset, code), offset + Len(code),
             BytesAt(m, a, snapshot_size))

\* A lock taken without waiting for it (used to test C4).
spinlock_acquire_without_waiting(lock) ==
  TRUE

\* gum_spinlock_acquire returns once the lock is free.
gum_spinlock_acquire(lock) ==
  lock = NULL

Idle(p) == [call EXCEPT ![p] = NoCall]

\* A caller enters gum_exec_ctx_obtain_block_for and asks for the lock.
ObtainCall(p, a) ==
  /\ call[p].pc = "idle"
  /\ call' = [call EXCEPT ![p] = [NoCall EXCEPT !.pc = "spin", !.addr = a]]
  /\ UNCHANGED <<mem, slab, offset, blocks, mappings, installed,
                 trust_threshold, code_lock>>
  /\ UNCHANGED notBlockVars

\* gum_exec_ctx_obtain_block_for, from the lock to the lookup.  A block
\* that is found is judged and the lock released; the caller then reuses or
\* recompiles it.  When none is found the caller goes on under the lock.
ObtainLookup(p) ==
  /\ call[p].pc = "spin"
  /\ gum_spinlock_acquire(code_lock)
  /\ LET a == call[p].addr
         b == mappings[a]
     IN
     IF b # NULL
       THEN LET up == still_up_to_date(trust_threshold, blocks[b], mem, slab)
            IN /\ (up /\ trust_threshold > 0) =>
                    blocks[b].recycle_count < MaxRecycle
               /\ call' = [call EXCEPT ![p] =
                             [pc |-> IF up THEN "reuse" ELSE "recompile",
                              addr |-> a, blk |-> b,
                              tt |-> IF up THEN trust_threshold ELSE 0]]
               /\ code_lock' = NULL
       ELSE /\ CanAllocate
            /\ call' = [call EXCEPT ![p] =
                          [pc |-> "new", addr |-> a, blk |-> NULL, tt |-> 0]]
            /\ code_lock' = p
  /\ UNCHANGED <<mem, slab, offset, blocks, mappings, installed,
                 trust_threshold>>
  /\ UNCHANGED notBlockVars

\* No block was found: a new one is compiled, committed and inserted, and
\* the lock released.
ObtainCompile(p) ==
  /\ call[p].pc = "new"
  /\ CanAllocate
  /\ \E extra \in 0..MaxExtra :
       LET a == call[p].addr
           b == NewBlock
           blk == committed_block(mem, a, extra)
       IN /\ blocks' = [blocks EXCEPT ![b] = blk]
          /\ slab' = committed_slab(slab, mem, a, extra)
          /\ offset' = offset + blk.capacity
          /\ mappings' = [mappings EXCEPT ![a] = b]
          /\ installed' = [installed EXCEPT ![a] = @ \cup {b}]
  /\ code_lock' = NULL
  /\ call' = Idle(p)
  /\ UNCHANGED <<mem, trust_threshold>>
  /\ UNCHANGED notBlockVars

\* The block found was up to date.
ObtainReuse(p) ==
  /\ call[p].pc = "reuse"
  /\ blocks' = [blocks EXCEPT ![call[p].blk] =
                  [@ EXCEPT !.recycle_count =
                              IF call[p].tt > 0 THEN @ + 1 ELSE @]]
  /\ call' = Idle(p)
  /\ UNCHANGED <<mem, slab, offset, mappings, installed, trust_threshold,
                 code_lock>>
  /\ UNCHANGED notBlockVars

\* gum_exec_ctx_recompile_and_switch_block: the thread has run into the
\* trampoline that gum_exec_block_invalidate put at the start of a block.
RecompileEnter(p, a) ==
  /\ call[p].pc = "idle"
  /\ mappings[a] # NULL
  /\ slab[blocks[mappings[a]].code_start] = CODE_TRAMPOLINE
  /\ call' = [call EXCEPT ![p] =
                [pc |-> "recompile", addr |-> a, blk |-> mappings[a],
                 tt |-> 0]]
  /\ UNCHANGED <<mem, slab, offset, blocks, mappings, installed,
                 trust_threshold, code_lock>>
  /\ UNCHANGED notBlockVars

\* A recompilation that leaves the old code of the block where it is (used
\* to test C28).
keep_old_code(s, b) == s

\* gum_exec_ctx_recompile_block, the storage-block path: the writer is reset
\* to the block's code_start and a jmp to the storage block written there.
jump_to_storage_block(s, b) ==
  WriteAt(s, b.code_start, <<CODE_JMP>>)

\* gum_exec_ctx_recompile_block.  The block is compiled into the scratch
\* slab; when code and snapshot fit the block's capacity they go in its
\* place, else a storage block is compiled and committed at the cursor and
\* the block's code replaced by a jump to it.
Recompile(p) ==
  /\ call[p].pc = "recompile"
  /\ gum_spinlock_acquire(code_lock)
  /\ \E extra \in 0..MaxExtra :
       LET b == call[p].blk
           a == blocks[b].real_start
           code == compile_block(mem, a, extra)
           input == input_size(mem, a)
           new_snapshot_size ==
             gum_stalker_snapshot_space_needed_for(trust_threshold, input)
           new_block_size == Len(code) + new_snapshot_size
       IN IF new_block_size <= blocks[b].capacity
            THEN /\ blocks' = [blocks EXCEPT ![b] =
                                 [@ EXCEPT !.real_size = input,
                                           !.code_size = Len(code),
                                           !.storage_block = NULL,
                                           !.compiled_mem = mem]]
                 /\ slab' = WriteAt(
                              WriteAt(slab, blocks[b].code_start, code),
                              blocks[b].code_start + Len(code),
                              BytesAt(mem, a, new_snapshot_size))
                 /\ UNCHANGED offset
            ELSE /\ CanAllocate
                 /\ LET sb == NewBlock
                        storage_block == committed_block(mem, a, extra)
                    IN /\ blocks' = [blocks EXCEPT
                                       ![sb] = storage_block,
                                       ![b] = [@ EXCEPT
                                                 !.storage_block = sb,
                                                 !.compiled_mem = mem]]
                       /\ slab' = jump_to_storage_block(
                                    committed_slab(slab, mem, a, extra),
                                    blocks[b])
                       /\ offset' = offset + storage_block.capacity
  /\ code_lock' = NULL
  /\ call' = Idle(p)
  /\ UNCHANGED <<mem, mappings, installed, trust_threshold>>
  /\ UNCHANGED notBlockVars

\* An invalidation that overwrites all the code of the block (used to test
\* C27).
invalidate_whole_block(s, b) ==
  WriteAt(s, b.code_start, [i \in 1..b.code_size |-> CODE_TRAMPOLINE])

\* gum_exec_block_invalidate: the trampoline goes over the start of the
\* block's code.
gum_exec_block_invalidate(s, b) ==
  WriteAt(s, b.code_start, <<CODE_TRAMPOLINE>>)

\* gum_stalker_do_invalidate on a block that is mapped and that its thread
\* is not just entering.
Invalidate(a) ==
  /\ gum_spinlock_acquire(code_lock)
  /\ mappings[a] # NULL
  /\ slab' = gum_exec_block_invalidate(slab, blocks[mappings[a]])
  /\ UNCHANGED <<mem, offset, blocks, mappings, installed, trust_threshold,
                 code_lock, call>>
  /\ UNCHANGED notBlockVars

SetTrustThreshold(n) ==
  /\ n # trust_threshold
  /\ trust_threshold' = n
  /\ UNCHANGED <<mem, slab, offset, blocks, mappings, installed, code_lock,
                 call>>
  /\ UNCHANGED notBlockVars

\* The guest overwrites a byte of its code.
GuestWrite(i, v) ==
  /\ i < MemSize
  /\ v # mem[i]
  /\ mem' = [mem EXCEPT ![i] = v]
  /\ UNCHANGED <<slab, offset, blocks, mappings, installed, trust_threshold,
                 code_lock, call>>
  /\ UNCHANGED notBlockVars

BlocksNext ==
  \/ \E p \in Callers, a \in BlockStarts : ObtainCall(p, a)
  \/ \E p \in Callers : ObtainLookup(p)
  \/ \E p \in Callers : ObtainCompile(p)
  \/ \E p \in Callers : ObtainReuse(p)
  \/ \E p \in Callers, a \in BlockStarts : RecompileEnter(p, a)
  \/ \E p \in Callers : Recompile(p)
  \/ \E a \in BlockStarts : Invalidate(a)
  \/ \E n \in TrustThresholds : SetTrustThreshold(n)
  \/ \E i \in MemCells, v \in GuestBytes : GuestWrite(i, v)

\* C4: within the context at most one block is ever inserted for a guest
\* address, and the address maps to that block, however the calls of
\* gum_exec_ctx_obtain_block_for, the recompilations and the invalidations
\* interleave.
C4_MappingSingleValued ==
  \A a \in BlockStarts :
    /\ Cardinality(installed[a]) <= 1
    /\ mappings[a] # NULL => installed[a] = {mappings[a]}

\* One caller compiles a new block under the lock while another waits for
\* the lock with the same guest address.
C4_Witness ==
  \E p, q \in Callers :
    /\ p # q
    /\ call[p].pc = "new"
    /\ call[q].pc = "spin"
    /\ call[q].addr = call[p].addr
    /\ code_lock = p

\* C5 as stated: for every mapped block with recycle_count below the trust
\* threshold, the real_size bytes at its snapshot location, code_start +
\* code_size, are the guest bytes from real_start as they were when the
\* block was last compiled.
C5_SnapshotIsLastCompiledBytes ==
  \A a \in BlockStarts :
    LET b == mappings[a] IN
    (b # NULL /\ blocks[b].recycle_count < trust_threshold) =>
      SnapshotOf(slab, blocks[b]) =
        BytesAt(blocks[b].compiled_mem, blocks[b].real_start,
                blocks[b].real_size)

(***************************************************************************)
(* Claims about the trust threshold (checked under SpecBlocks)             *)
(***************************************************************************)
\* The live guest bytes of block b differ from its snapshot.
SnapshotDiffers(b) ==
  BytesAt(mem, b.real_start, b.real_size) # SnapshotOf(slab, b)

\* The live guest bytes of block b are not those it was last compiled from.
Overwritten(b) ==
  BytesAt(mem, b.real_start, b.real_size)
    # BytesAt(b.compiled_mem, b.real_start, b.real_size)

\* Caller p is judging the block that is mapped at the address it asked for.
Judges(p) ==
  /\ call[p].pc = "spin"
  /\ call'[p].pc \in {"reuse", "recompile"}

\* C11 as stated: with trust_threshold < 0 a block that is found mapped is
\* recompiled on every call, whether its guest bytes changed or not.
C11_NegativeThresholdAlwaysRecompiles ==
  [][\A p \in Callers :
       (Judges(p) /\ trust_threshold < 0)
         => call'[p].pc = "recompile"]_vars

\* C11 amended: with trust_threshold < 0 a block that is found mapped is
\* never trusted: its snapshot is compared with the live guest bytes on
\* every call, and it is recompiled exactly when they differ.
C11_NegativeThresholdComparesSnapshot ==
  [][\A p \in Callers :
       (Judges(p) /\ trust_threshold < 0)
         => (call'[p].pc = "recompile"
               <=> SnapshotDiffers(blocks[call'[p].blk]))]_vars

\* A block is reused under a negative threshold, its bytes being those of
\* its snapshot.
C11_Witness ==
  \E p \in Callers :
    /\ call[p].pc = "reuse"
    /\ call[p].tt < 0
    /\ trust_threshold < 0
    /\ ~SnapshotDiffers(blocks[call[p].blk])

\* Caller p returns from gum_exec_ctx_obtain_block_for with a block it
\* judged up to date.
Reuses(p) ==
  /\ call[p].pc = "reuse"
  /\ call'[p].pc = "idle"

\* C12 as stated: with trust_threshold >= 0 and recycle_count >=
\* trust_threshold (a threshold of 0 included) the block is reused without
\* being recompiled, and its recycle_count increases by exactly one.
C12_TrustedBlockReusedAndCounted ==
  [][\A p \in Callers :
       /\ (Judges(p) /\ trust_threshold >= 0
             /\ blocks[call'[p].blk].recycle_count >= trust_threshold)
            => call'[p].pc = "reuse"
       /\ (Reuses(p) /\ call[p].tt >= 0
             /\ blocks[call[p].blk].recycle_count >= call[p].tt)
            => blocks'[call[p].blk].recycle_count
                 = blocks[call[p].blk].recycle_count + 1]_vars

\* C12 amended: with trust_threshold >= 0 and recycle_count >=
\* trust_threshold the block is reused without being recompiled, its code,
\* snapshot and mapping left as they are; its recycle_count increases by
\* exactly one if the threshold is positive and stays as it is if the
\* threshold is 0.
C12_TrustedBlockReusedCountedIfPositive ==
  [][\A p \in Callers :
       /\ (Judges(p) /\ trust_threshold >= 0
             /\ blocks[call'[p].blk].recycle_count >= trust_threshold)
            => call'[p].pc = "reuse"
       /\ (Reuses(p) /\ call[p].tt >= 0
             /\ blocks[call[p].blk].recycle_count >= call[p].tt)
            => /\ blocks'[call[p].blk].recycle_count
                    = blocks[call[p].blk].recycle_count
                        + (IF call[p].tt > 0 THEN 1 ELSE 0)
               /\ blocks'[call[p].blk].compiled_mem
                    = blocks[call[p].blk].compiled_mem
               /\ slab' = slab
               /\ mappings' = mappings]_vars

\* A block is reused on account of its recycle_count although its guest
\* bytes differ from its snapshot, under a positive threshold.
C12_Witness ==
  \E p \in Callers :
    /\ call[p].pc = "reuse"
    /\ call[p].tt > 0
    /\ blocks[call[p].blk].recycle_count >= call[p].tt
    /\ SnapshotDiffers(blocks[call[p].blk])

\* Caller p returns from gum_exec_ctx_obtain_block_for with a block it
\* judged out of date.
ReturnsRecompiled(p) ==
  /\ call[p].pc = "recompile"
  /\ call'[p].pc = "idle"

\* C13: with recycle_count < trust_threshold the snapshot is compared with
\* the live guest bytes: if they are equal the block is reused, and if they
\* differ the block is recompiled, from the live bytes, before the call
\* returns.
C13_UntrustedBlockComparedWithSnapshot ==
  [][\A p \in Callers :
       /\ (Judges(p)
             /\ blocks[call'[p].blk].recycle_count < trust_threshold)
            => /\ ~SnapshotDiffers(blocks[call'[p].blk])
                    => call'[p].pc = "reuse"
               /\ SnapshotDiffers(blocks[call'[p].blk])
                    => call'[p].pc = "recompile"
       /\ ReturnsRecompiled(p)
            => blocks'[call[p].blk].compiled_mem = mem]_vars

\* A block below the threshold is about to be recompiled because its guest
\* bytes differ from its snapshot.
C13_Witness ==
  \E p \in Callers :
    /\ call[p].pc = "recompile"
    /\ blocks[call[p].blk].recycle_count < trust_threshold
    /\ SnapshotDiffers(blocks[call[p].blk])
    /\ Overwritten(blocks[call[p].blk])

\* C14 as stated: with trust_threshold = 0 every re-entry into a block
\* whose guest bytes were overwritten recompiles the block.
C14_ZeroThresholdRecompilesOverwritten ==
  [][\A p \in Callers :
       (Judges(p) /\ trust_threshold = 0
          /\ Overwritten(blocks[call'[p].blk]))
         => call'[p].pc = "recompile"]_vars

\* C14 amended: with trust_threshold = 0 every re-entry into a block reuses
\* its translation, also when the guest bytes were overwritten since it was
\* compiled: nothing is compared, and the call returns with the block, its
\* code and its count as they were.
C14_ZeroThresholdReusesOverwritten ==
  [][\A p \in Callers :
       /\ (Judges(p) /\ trust_threshold = 0) => call'[p].pc = "reuse"
       /\ (Reuses(p) /\ call[p].tt = 0)
            => /\ blocks' = blocks
               /\ slab' = slab]_vars

\* A block whose guest bytes were overwritten is reused under a threshold
\* of 0.
C14_Witness ==
  \E p \in Callers :
    /\ call[p].pc = "reuse"
    /\ call[p].tt = 0
    /\ trust_threshold = 0
    /\ Overwritten(blocks[call[p].blk])

\* C15 as stated: with trust_threshold = 1 the first re-entry into a block
\* whose guest bytes were overwritten reuses the block without recompiling
\* it.
C15_FirstReentryReusesOverwritten ==
  [][\A p \in Callers :
       (Judges(p) /\ trust_threshold = 1
          /\ blocks[call'[p].blk].recycle_count = 0
          /\ Overwritten(blocks[call'[p].blk]))
         => call'[p].pc = "reuse"]_vars

\* C15 amended: with trust_threshold = 1 the first re-entry into a block
\* (recycle_count 0) recompiles it if its guest bytes differ from its
\* snapshot, and any re-entry after one that reused it (recycle_count >= 1)
\* reuses it without recompiling, whatever its guest bytes are.
C15_FirstReentryComparesLaterReuse ==
  [][\A p \in Callers :
       (Judges(p) /\ trust_threshold = 1)
         => /\ (blocks[call'[p].blk].recycle_count = 0
                  /\ SnapshotDiffers(blocks[call'[p].blk]))
                 => call'[p].pc = "recompile"
            /\ blocks[call'[p].blk].recycle_count >= 1
                 => call'[p].pc = "reuse"]_vars

\* Under a threshold of 1 a block that was reused once is reused again
\* although its guest bytes were overwritten since it was compiled.
C15_Witness ==
  \E p \in Callers :
    /\ call[p].pc = "reuse"
    /\ call[p].tt = 1
    /\ trust_threshold = 1
    /\ blocks[call[p].blk].recycle_count >= 1
    /\ Overwritten(blocks[call[p].blk])

\* C25: for every block that has been committed, the size of its
\* translated code plus the snapshot space its guest size calls for under
\* the current trust threshold (real_size, or 0 when the threshold is 0) is
\* at most its capacity.
C25_CodeAndSnapshotWithinCapacity ==
  \A b \in BlockIds :
    blocks[b].used =>
      blocks[b].code_size
        + gum_stalker_snapshot_space_needed_for(trust_threshold,
                                                blocks[b].real_size)
        <= blocks[b].capacity

\* C27: a guest address that is mapped stays mapped to the same block
\* record, whatever is compiled, recompiled or invalidated; and an
\* invalidation changes nothing but the bytes at the start of the block's
\* code: the mappings and the block records, with their recycle_count,
\* real_size, code_size and capacity, stay as they are.
C27_MappingKeptInvalidateTouchesHeadOnly ==
  [][/\ \A a \in BlockStarts :
          mappings[a] # NULL => mappings'[a] = mappings[a]
     /\ \A a \in BlockStarts :
          Invalidate(a) =>
            /\ mappings' = mappings
            /\ blocks' = blocks
            /\ offset' = offset
            /\ \A i \in SlabCells :
                 i # blocks[mappings[a]].code_start => slab'[i] = slab[i]
            /\ slab'[blocks[mappings[a]].code_start] = CODE_TRAMPOLINE
    ]_vars

\* A block that has been reused and counted has been invalidated.
C27_Witness ==
  \E a \in BlockStarts :
    /\ mappings[a] # NULL
    /\ blocks[mappings[a]].recycle_count > 0
    /\ slab[blocks[mappings[a]].code_start] = CODE_TRAMPOLINE

\* The code of block b as the slab holds it, and the translations of the
\* guest bytes the block was last compiled from.
CodeOf(s, b) ==
  [i \in 1..b.code_size |-> s[b.code_start + i - 1]]

Translations(b) ==
  {compile_block(b.compiled_mem, b.real_start, extra) : extra \in 0..MaxExtra}

\* What a jump to the code_start of block b runs: the trampoline that has
\* the block recompiled, the storage block behind the jmp, or the code of
\* the block itself.
LeadsToCurrentTranslation(b) ==
  \/ slab[b.code_start] = CODE_TRAMPOLINE
  \/ /\ slab[b.code_start] = CODE_JMP
     /\ b.storage_block # NULL
     /\ CodeOf(slab, blocks[b.storage_block]) \in Translations(b)
  \/ /\ slab[b.code_start] \notin {CODE_TRAMPOLINE, CODE_JMP}
     /\ CodeOf(slab, b) \in Translations(b)

\* C28: no recompilation changes the code_start of a block: a new
\* translation that fits goes into the block's place, else it goes into a
\* fresh storage block and a jmp to that replaces the old code; so that
\* whatever points at the code_start of a mapped block (a backpatched jump,
\* an inline-cache entry, a shadow frame) leads to its current translation,
\* after any number of recompilations.
C28_CodeStartKeptAcrossRecompiles ==
  /\ [](\A a \in BlockStarts :
          mappings[a] # NULL => LeadsToCurrentTranslation(blocks[mappings[a]]))
  /\ [][\A b \in BlockIds :
          blocks[b].used =>
            /\ blocks'[b].code_start = blocks[b].code_start
            /\ blocks'[b].capacity = blocks[b].capacity]_vars
  /\ [][\A p \in Callers :
          Recompile(p) =>
            LET b == call[p].blk IN
            \/ /\ blocks'[b].storage_block = NULL
               /\ offset' = offset
               /\ blocks'[b].code_size + gum_stalker_snapshot_space_needed_for(
                    trust_threshold, blocks'[b].real_size) <= blocks[b].capacity
            \/ /\ blocks'[b].storage_block # NULL
               /\ ~blocks[blocks'[b].storage_block].used
               /\ blocks'[blocks'[b].storage_block].code_start = offset
               /\ slab'[blocks[b].code_start] = CODE_JMP]_vars

\* A block has been recompiled twice into storage blocks, and its
\* code_start holds the jmp to the second.
C28_Witness ==
  \E a \in BlockStarts :
    LET b == blocks[mappings[a]] IN
    /\ mappings[a] # NULL
    /\ b.storage_block # NULL
    /\ FreeBlocks = {}
    /\ slab[b.code_start] = CODE_JMP

(***************************************************************************)
(* A loop whose guest bytes never change (SpecLoop)                        *)
(*                                                                         *)
(* The threads of a context enter the blocks of a loop again and again     *)
(* through gum_exec_ctx_obtain_block_for.  The guest's code is any code    *)
(* that ends in a ret, and nothing writes to it, invalidates a block or    *)
(* changes the trust threshold, which is the 1 that gum_stalker_init set.  *)
(* The initial state, LoopInit, is defined with the specifications.        *)
(***************************************************************************)
LoopNext ==
  \/ \E p \in Callers, a \in BlockStarts : ObtainCall(p, a)
  \/ \E p \in Callers : ObtainLookup(p)
  \/ \E p \in Callers : ObtainCompile(p)
  \/ \E p \in Callers : ObtainReuse(p)

\* The number of compilations that produced the code of guest address a:
\* one per block record compiled for it, storage blocks included.
Compilations(a) ==
  Cardinality({b \in BlockIds : blocks[b].used /\ blocks[b].real_start = a})

\* C16: in a loop whose guest bytes never change, under a trust threshold
\* of 1, no entry into a block that is already mapped leads to a
\* recompilation, and the compiler has run exactly once for every guest
\* address that is mapped, however often the block is entered.
C16_LoopCompiledOnce ==
  /\ \A p \in Callers : call[p].pc # "recompile"
  /\ \A a \in BlockStarts :
       /\ Compilations(a) <= 1
       /\ mappings[a] # NULL
            => /\ Compilations(a) = 1
               /\ blocks[mappings[a]].compiled_mem = mem
               /\ blocks[mappings[a]].storage_block = NULL

\* A block of the loop has been entered again, twice, and a further entry
\* has found it up to date.
C16_Witness ==
  \E p \in Callers :
    /\ call[p].pc = "reuse"
    /\ blocks[call[p].blk].recycle_count >= 2
    /\ Compilations(call[p].addr) = 1

(***************************************************************************)
(* Translated code at work                                                 *)
(*                                                                         *)
(* One thread has followed itself and runs the translation of a small      *)
(* guest program: the block at guest address 1 ends in an indirect jmp     *)
(* whose target is 1 or 2, the block at 2 ends in the direct jmp 1.  The   *)
(* thread makes no excluded call here, so pending_calls is 0 at every      *)
(* poll, and the guest never writes to its code, so a block that is        *)
(* looked up again is found up to date.  trust_threshold keeps the value   *)
(* gum_stalker_init gave it.                                               *)
(***************************************************************************)
ExecAddrs == {1, 2}
EntryAddr == 2

\* GumBranchTarget of the branch that ends the block at guest address a.
is_indirect(a) == a = 1
absolute_address(a) == 1

\* GumStalker.ic_entries, and the value of an IcEntry's code_start while the
\* entry is empty (any value that is no address will do).
ic_entries == 2
GUM_IC_MAGIC_EMPTY == 64206
\* What an IcEntry-sized piece of machine code reads as.
CODE_BYTES == 233

IcIndex == 1..ic_entries
EmptyIcEntry == [real_start |-> NULL, code_start |-> GUM_IC_MAGIC_EMPTY]
EmptyIc == [i \in IcIndex |-> EmptyIcEntry]
CodeIc == [i \in IcIndex |-> [real_start |-> CODE_BYTES,
                              code_start |-> CODE_BYTES]]

\* GumEventSink masks: no events, or block events.
SinkMasks == {{}, {"GUM_BLOCK"}}

\* A translated block.  jmp_site is NULL while the transfer code of a
\* direct jmp still goes through the entry gate, and the code address it
\* jumps to once it is backpatched.  ic is the IcEntry array inside the
\* block's own code; ic_entries_at tells where the address that the lookup
\* code and the backpatcher use for the array points: into the block
\* ("block") or into the scratch slab ("scratch").
NoExecBlock ==
  [recycle_count |-> 0, flags |-> {}, invalidated |-> FALSE,
   jmp_site |-> NULL, ic |-> EmptyIc, ic_entries_at |-> "block"]

NoBackpatch == [type |-> "none", to |-> NULL, from |-> NULL]

\* Before the thread calls gum_stalker_follow_me: no context, no block.
ExecInit ==
  /\ exec_ctx = NoCtx
  /\ exec_pc = [at |-> "original", blk |-> NULL, target |-> EntryAddr]
  /\ exec_blocks = [a \in ExecAddrs |-> NoExecBlock]
  /\ scratch_slab = CodeIc
  /\ sink_mask = {}
  /\ notified = NoBackpatch

\* The IcEntry array the block at a reads and the backpatcher writes.
InlineCache(xb, sc, a) ==
  IF xb[a].ic_entries_at = "scratch" THEN sc ELSE xb[a].ic

\* A check that does not look at recycle_count (used to test C7).
may_now_backpatch_ignoring_recycle_count(cx, target_block, tt) ==
  /\ cx.state = GUM_EXEC_CTX_ACTIVE
  /\ "ACTIVATION_TARGET" \notin target_block.flags

gum_exec_ctx_may_now_backpatch(cx, target_block, tt) ==
  /\ cx.state = GUM_EXEC_CTX_ACTIVE
  /\ "ACTIVATION_TARGET" \notin target_block.flags
  /\ ~(target_block.recycle_count < tt)

\* recycle_count is only ever compared with trust_threshold, so counts
\* above MaxRecycle are kept as MaxRecycle.
Recycled(n) == IF n < MaxRecycle THEN n + 1 ELSE MaxRecycle

\* An obtain that never counts the entries into a block (used to test C17
\* and C18).
obtain_block_without_count(cx, xb, a, tt) ==
  IF a \in cx.mappings
    THEN xb
    ELSE [xb EXCEPT ![a] = NoExecBlock]

\* gum_exec_ctx_obtain_block_for on the blocks: a block that is mapped is up
\* to date; a block that is not is compiled afresh, its inline cache in
\* its own code.
exec_obtain_block_for(cx, xb, a, tt) ==
  IF a \in cx.mappings
    THEN IF tt > 0
      THEN [xb EXCEPT ![a].recycle_count = Recycled(@)]
      ELSE xb
    ELSE [xb EXCEPT ![a] = NoExecBlock]

\* The lines of gum_exec_ctx_switch_block and of
\* gum_exec_ctx_recompile_and_switch_block that flag the activation target.
flag_activation_target(cx, xb, a) ==
  IF a = cx.activation_target
    THEN [xb EXCEPT ![a].flags = @ \cup {"ACTIVATION_TARGET"}]
    ELSE xb

\* gum_exec_block_backpatch_jmp on the blocks and the observer: block is
\* ctx->current_block (NULL when the thread has just unfollowed), from the
\* block that holds the site.  [b] are the blocks, [s] the scratch slab and
\* [n] the backpatch the observer is handed, each afterwards.
gum_exec_block_backpatch_jmp(cx, tt, st, block, from) ==
  IF block = NULL
    THEN st
    ELSE IF ~gum_exec_ctx_may_now_backpatch(cx, st.b[block], tt)
      THEN st
      ELSE [st EXCEPT !.b[from].jmp_site = code_address(block),
                      !.n = [type |-> "GUM_BACKPATCH_JMP",
                             to |-> block, from |-> from]]

\* A loop that stops at the last entry that is empty (used to test C34).
ic_slot_from_the_end(ic, block) ==
  LET stops == {i \in DOMAIN ic : ic[i].real_start \in {block, NULL}}
  IN IF stops = {} THEN 0
     ELSE CHOOSE i \in stops : \A j \in stops : i >= j

\* The entry the loop of gum_exec_block_backpatch_inline_cache stops at: the
\* first one that holds the target already or is empty; 0 when none is.
ic_slot(ic, block) ==
  LET stops == {i \in DOMAIN ic : ic[i].real_start \in {block, NULL}}
  IN IF stops = {} THEN 0
     ELSE CHOOSE i \in stops : \A j \in stops : i <= j

gum_exec_block_backpatch_inline_cache(cx, tt, st, block, from) ==
  IF block = NULL
    THEN st
    ELSE IF ~gum_exec_ctx_may_now_backpatch(cx, st.b[block], tt)
      THEN st
      ELSE
        LET ic == InlineCache(st.b, st.s, from)
            i == ic_slot(ic, block)
            entry == [real_start |-> block,
                      code_start |-> code_address(block)]
            p == [type |-> "GUM_BACKPATCH_INLINE_CACHE",
                  to |-> block, from |-> from]
        IN IF i = 0 \/ ic[i].real_start = block
             THEN st
             ELSE IF st.b[from].ic_entries_at = "scratch"
               THEN [st EXCEPT !.s[i] = entry, !.n = p]
               ELSE [st EXCEPT !.b[from].ic[i] = entry, !.n = p]

\* The backpatcher the transfer code of the block at from calls.
backpatch(cx, tt, st, block, from) ==
  IF is_indirect(from)
    THEN gum_exec_block_backpatch_inline_cache(cx, tt, st, block, from)
    ELSE gum_exec_block_backpatch_jmp(cx, tt, st, block, from)

\* gum_exec_ctx_recompile_block for a block whose new code fits its
\* capacity (the guest code is the same, so it does): the code is compiled
\* into the scratch slab with the writer's pc set to the block, then copied
\* over the block.  The direct jmp is written through the writer's pc and
\* lands in the block.  The address of the IcEntry array is taken from the
\* writer's cursor (gum_x86_writer_cur), which is in the scratch slab.
recompiled_in_place(xb, a) ==
  [xb EXCEPT ![a].invalidated = FALSE,
             ![a].jmp_site = NULL,
             ![a].ic = EmptyIc,
             ![a].ic_entries_at =
               IF is_indirect(a) THEN "scratch" ELSE "block"]

\* What the compilation of the block at a leaves in the scratch slab where
\* inline caches are.
scratch_after_compile(a) ==
  IF is_indirect(a) THEN EmptyIc ELSE CodeIc

\* The original code: the thread has left translated code for good.
Original(resume_at) ==
  [at |-> "original", blk |-> NULL, target |-> resume_at]

AtStart(a) == [at |-> "start", blk |-> a, target |-> NULL]

Following == exec_ctx.live /\ exec_pc.at # "original"

\* The block whose translation starts at a code address.
BlockAt(code) == CHOOSE a \in ExecAddrs : code_address(a) = code

\* _gum_stalker_do_follow_me: the thread follows itself with a sink that
\* asks for the events of mask; the block of the return address is compiled
\* and the thread enters it.
ExecFollowMe(mask) ==
  /\ ~exec_ctx.live
  /\ exec_pc.at = "original"
  /\ LET a == exec_pc.target
         cx == [gum_exec_ctx_new(1) EXCEPT !.mappings = {a}]
     IN /\ exec_ctx' = follow_me_obtained(cx, a).cx
        /\ exec_blocks' =
             exec_obtain_block_for(exec_ctx, exec_blocks, a, trust_threshold)
        /\ exec_pc' = AtStart(a)
  /\ sink_mask' = mask
  /\ notified' = NoBackpatch
  /\ UNCHANGED <<scratch_slab, notExecVars>>

\* The thread runs a block from its start to the branch that ends it.  With
\* block events the block starts with an event site, the only place where
\* gum_exec_block_write_unfollow_check_code emits the poll.
RunBlock ==
  /\ exec_pc.at = "start"
  /\ ~exec_blocks[exec_pc.blk].invalidated
  /\ LET a == exec_pc.blk
         r == IF "GUM_BLOCK" \in sink_mask
                THEN gum_exec_ctx_maybe_unfollow(exec_ctx, a)
                ELSE [done |-> FALSE, cx |-> exec_ctx]
     IN /\ exec_ctx' = r.cx
        /\ IF r.done
             THEN exec_pc' = Original(a)
             ELSE \E t \in ExecAddrs :
                    /\ is_indirect(a) \/ t = absolute_address(a)
                    /\ exec_pc' = [at |-> "site", blk |-> a, target |-> t]
  /\ notified' = NoBackpatch
  /\ UNCHANGED <<exec_blocks, scratch_slab, sink_mask, notExecVars>>

\* The thread enters a block that starts with the invalidation trampoline:
\* gum_exec_ctx_recompile_and_switch_block.
RunInvalidatedBlock ==
  /\ exec_pc.at = "start"
  /\ exec_blocks[exec_pc.blk].invalidated
  /\ LET a == exec_pc.blk
         r1 == gum_exec_ctx_maybe_unfollow(exec_ctx, a)
         xb == flag_activation_target(exec_ctx,
                 recompiled_in_place(exec_blocks, a), a)
         r2 == switch_block_obtained(exec_ctx, a)
     IN IF r1.done
          THEN /\ exec_ctx' = r1.cx
               /\ exec_pc' = Original(a)
               /\ UNCHANGED <<exec_blocks, scratch_slab>>
          ELSE /\ exec_ctx' = r2.cx
               /\ exec_blocks' = xb
               /\ scratch_slab' = scratch_after_compile(a)
               /\ exec_pc' = IF r2.done THEN Original(a) ELSE AtStart(a)
  /\ notified' = NoBackpatch
  /\ UNCHANGED <<sink_mask, notExecVars>>

\* A direct jmp that has been backpatched: straight into the target block.
TakeBackpatchedJmp ==
  /\ exec_pc.at = "site"
  /\ ~is_indirect(exec_pc.blk)
  /\ exec_blocks[exec_pc.blk].jmp_site # NULL
  /\ exec_pc' = AtStart(BlockAt(exec_blocks[exec_pc.blk].jmp_site))
  /\ notified' = NoBackpatch
  /\ UNCHANGED <<exec_ctx, exec_blocks, scratch_slab, sink_mask, notExecVars>>

\* The entries of an inline cache that hold the target.
ic_matches(ic, target) == {i \in DOMAIN ic : ic[i].real_start = target}

\* An indirect jmp whose target is in the inline cache: the lookup code
\* jumps to the code_start of the first entry that matches.
TakeInlineCacheHit ==
  /\ exec_pc.at = "site"
  /\ is_indirect(exec_pc.blk)
  /\ LET ic == InlineCache(exec_blocks, scratch_slab, exec_pc.blk)
         hits == ic_matches(ic, exec_pc.target)
     IN /\ hits # {}
        /\ LET i == CHOOSE i \in hits : \A j \in hits : i <= j
           IN exec_pc' = AtStart(BlockAt(ic[i].code_start))
  /\ notified' = NoBackpatch
  /\ UNCHANGED <<exec_ctx, exec_blocks, scratch_slab, sink_mask, notExecVars>>

\* The transfer code calls the entry gate: gum_exec_ctx_switch_block.
JmpEntryGate ==
  /\ exec_pc.at = "site"
  /\ IF is_indirect(exec_pc.blk)
       THEN ic_matches(InlineCache(exec_blocks, scratch_slab, exec_pc.blk),
                       exec_pc.target) = {}
       ELSE exec_blocks[exec_pc.blk].jmp_site = NULL
  /\ LET a == exec_pc.target
         r == gum_exec_ctx_switch_block(exec_ctx, a)
         cx == [r.cx EXCEPT !.mappings = @ \cup {a}]
         xb == exec_obtain_block_for(exec_ctx, exec_blocks, a,
                                     trust_threshold)
     IN IF r.done
          THEN /\ exec_ctx' = r.cx
               /\ UNCHANGED exec_blocks
          ELSE /\ exec_ctx' = switch_block_obtained(cx, a).cx
               /\ exec_blocks' = flag_activation_target(cx, xb, a)
  /\ exec_pc' = [exec_pc EXCEPT !.at = "resolved"]
  /\ notified' = NoBackpatch
  /\ UNCHANGED <<scratch_slab, sink_mask, notExecVars>>

\* Back from the gate, the transfer code hands ctx->current_block to the
\* backpatcher of its site and jumps to ctx->resume_at.
BackpatchAndResume ==
  /\ exec_pc.at = "resolved"
  /\ LET st == backpatch(exec_ctx, trust_threshold,
                         [b |-> exec_blocks, s |-> scratch_slab,
                          n |-> NoBackpatch],
                         exec_ctx.current_block, exec_pc.blk)
     IN /\ exec_blocks' = st.b
        /\ scratch_slab' = st.s
        /\ notified' = st.n
  /\ exec_pc' = IF exec_ctx.current_block = NULL
                  THEN Original(exec_ctx.resume_at)
                  ELSE AtStart(BlockAt(exec_ctx.resume_at))
  /\ UNCHANGED <<exec_ctx, sink_mask, notExecVars>>

\* gum_stalker_unfollow called by another thread: the compare-and-exchange
\* of the state.  The followed thread is not parked in the infect thunk, so
\* gum_stalker_disinfect, where it is called, changes nothing.
RequestUnfollow ==
  /\ Following
  /\ exec_ctx.state = GUM_EXEC_CTX_ACTIVE
  /\ exec_ctx' = cas_unfollow_pending(exec_ctx)
  /\ notified' = NoBackpatch
  /\ UNCHANGED <<exec_pc, exec_blocks, scratch_slab, sink_mask, notExecVars>>

\* gum_stalker_invalidate_for_thread called by another thread for the block
\* at a: gum_stalker_try_invalidate_block_owned_by_thread leaves the block
\* alone while the thread is in the block's first bytes, and writes the
\* trampoline otherwise.
InvalidateForThread(a) ==
  /\ Following
  /\ a \in exec_ctx.mappings
  /\ ~(exec_pc.at = "start" /\ exec_pc.blk = a)
  /\ exec_blocks' = [exec_blocks EXCEPT ![a].invalidated = TRUE]
  /\ notified' = NoBackpatch
  /\ UNCHANGED <<exec_ctx, exec_pc, scratch_slab, sink_mask, notExecVars>>

\* The guest calls gum_stalker_activate, which is in an excluded range: the
\* call returns into translated code, so _gum_stalker_do_activate only
\* writes the two fields.
ExcludedActivate(target) ==
  /\ Following
  /\ exec_pc.at = "start"
  /\ exec_ctx' =
       [exec_ctx EXCEPT !.unfollow_called_while_still_following = FALSE,
                        !.activation_target = target]
  /\ notified' = NoBackpatch
  /\ UNCHANGED <<exec_pc, exec_blocks, scratch_slab, sink_mask, notExecVars>>

\* gum_stalker_prefetch_backpatch called by the followed thread with a
\* backpatch an observer was notified of: the kind of the site is the kind
\* of the branch that ends the block at from.
PrefetchBackpatch(to, from) ==
  /\ Following
  /\ exec_pc.at = "start"
  /\ is_indirect(from) \/ to = absolute_address(from)
  /\ LET tt == trust_threshold
         cx1 == [exec_ctx EXCEPT !.mappings = @ \cup {to}]
         xb1 == exec_obtain_block_for(exec_ctx, exec_blocks, to, tt)
         cx2 == [cx1 EXCEPT !.mappings = @ \cup {from}]
         xb2 == exec_obtain_block_for(cx1, xb1, from, tt)
         xb3 == [a \in ExecAddrs |->
                   IF a \in {to, from}
                     THEN [xb2[a] EXCEPT !.recycle_count = tt]
                     ELSE xb2[a]]
         st == backpatch(cx2, tt,
                         [b |-> xb3, s |-> scratch_slab, n |-> NoBackpatch],
                         to, from)
     IN /\ exec_ctx' = cx2
        /\ exec_blocks' = st.b
        /\ scratch_slab' = st.s
        /\ notified' = st.n
  /\ UNCHANGED <<exec_pc, sink_mask, notExecVars>>

\* The steps of the followed thread inside translated code.
TranslatedStep ==
  \/ RunBlock
  \/ RunInvalidatedBlock
  \/ TakeBackpatchedJmp
  \/ TakeInlineCacheHit
  \/ JmpEntryGate
  \/ BackpatchAndResume

ExecNext ==
  \/ \E mask \in SinkMasks : ExecFollowMe(mask)
  \/ TranslatedStep
  \/ RequestUnfollow
  \/ \E a \in ExecAddrs : InvalidateForThread(a)
  \/ \E a \in ExecAddrs : ExcludedActivate(a)
  \/ \E to, from \in ExecAddrs : PrefetchBackpatch(to, from)

\* The thread, and another thread that asks to unfollow it.
ExecFairNext ==
  \/ \E mask \in SinkMasks : ExecFollowMe(mask)
  \/ TranslatedStep
  \/ RequestUnfollow
  \/ \E a \in ExecAddrs : InvalidateForThread(a)

(***************************************************************************)
(* Claims about translated code at work                                    *)
(***************************************************************************)
\* C2: once the state of a context is UNFOLLOW_PENDING, and while the
\* thread keeps executing translated code with pending_calls at 0, the
\* state becomes DESTROY_PENDING and the thread is back in the original
\* code, whether its transfers go through an entry gate, hit an inline
\* cache or follow a backpatched jmp.
C2_UnfollowPendingLeadsToDestroyPending ==
  (exec_ctx.state = GUM_EXEC_CTX_UNFOLLOW_PENDING)
    ~> (/\ exec_ctx.state = GUM_EXEC_CTX_DESTROY_PENDING
        /\ exec_pc.at = "original")

\* C6: an inline-cache entry that holds a pair (guest address, code
\* address) keeps it until the block that contains the cache is recompiled:
\* no backpatch and no other step changes it.
C6_InlineCacheEntryKeptUntilRecompiled ==
  [][\A a \in ExecAddrs : \A i \in IcIndex :
       LET before == InlineCache(exec_blocks, scratch_slab, a)[i]
           after == InlineCache(exec_blocks', scratch_slab', a)[i]
       IN (/\ is_indirect(a)
           /\ a \in exec_ctx.mappings
           /\ before.real_start \in ExecAddrs
           /\ after # before)
            => (/\ exec_blocks[a].invalidated
                /\ ~exec_blocks'[a].invalidated)]_vars

Reenters(a) ==
  /\ Following
  /\ exec_pc.at = "site"
  /\ exec_pc.target = a
  /\ a \in exec_ctx.mappings
  /\ exec_pc'.at \in {"resolved", "start"}
  /\ exec_ctx'.current_block # NULL
  /\ exec_blocks[a].recycle_count < MaxRecycle

\* C17 as stated: under a trust threshold of 1 every re-entry of a block
\* increments its recycle_count, so that after n executions the count is at
\* least n - 1.
C17_EveryReentryCounted ==
  [][\A a \in ExecAddrs :
       (Reenters(a) /\ trust_threshold = 1)
         => exec_blocks'[a].recycle_count
              = exec_blocks[a].recycle_count + 1]_vars

\* C17 amended: under a trust threshold of 1 a re-entry of a block that
\* passes through an entry gate increments its recycle_count by one; a
\* re-entry through a backpatched jmp or an inline-cache hit, which exists
\* only once the count has reached the threshold, leaves the count as it
\* is.
C17_ReentryCountedAtGateOnly ==
  [][\A a \in ExecAddrs :
       (Reenters(a) /\ trust_threshold = 1)
         => IF exec_pc'.at = "resolved"
              THEN exec_blocks'[a].recycle_count
                     = exec_blocks[a].recycle_count + 1
              ELSE /\ exec_blocks' = exec_blocks
                   /\ exec_blocks[a].recycle_count >= trust_threshold]_vars

\* The thread is about to re-enter a block through a backpatched jmp, the
\* block's count being what the entry gates left.
C17_Witness ==
  /\ Following
  /\ exec_pc.at = "site"
  /\ ~is_indirect(exec_pc.blk)
  /\ exec_blocks[exec_pc.blk].jmp_site = code_address(exec_pc.target)
  /\ exec_pc.target \in exec_ctx.mappings
  /\ exec_blocks[exec_pc.target].recycle_count = 1
  /\ trust_threshold = 1

\* The transfer code of an indirect branch, back from its gate with the
\* block B in ctx->current_block, calls
\* gum_exec_block_backpatch_inline_cache for its site and goes on.
IcBackpatchCall ==
  /\ exec_pc.at = "resolved"
  /\ is_indirect(exec_pc.blk)
  /\ exec_ctx.current_block # NULL
  /\ exec_pc'.at # "resolved"

IcPair(block) == [real_start |-> block, code_start |-> code_address(block)]

FirstEmpty(ic) ==
  CHOOSE i \in DOMAIN ic :
    /\ ic[i].real_start = NULL
    /\ \A j \in DOMAIN ic : ic[j].real_start = NULL => i <= j

\* What C34 says of a call for the block B on the array ic: the pair of B
\* goes into the first empty entry; nothing happens when B is there or no
\* entry is empty.
IcBackpatched(ic, after, B) ==
  IF \/ \E i \in DOMAIN ic : ic[i].real_start = B
     \/ \A i \in DOMAIN ic : ic[i].real_start # NULL
    THEN after = ic /\ notified'.type = "none"
    ELSE /\ after = [ic EXCEPT ![FirstEmpty(ic)] = IcPair(B)]
         /\ notified'.type = "GUM_BACKPATCH_INLINE_CACHE"
         /\ notified'.to = B

IcFull(ic) == \A i \in DOMAIN ic : ic[i].real_start # NULL

\* C36: in every inline cache, between recompilations of its block, the
\* entries that are populated form a prefix of the array, hold pairwise
\* distinct guest addresses, and each holds the (real_start, code_start) of
\* the block mapped at its guest address; and once every entry is
\* populated the cache changes no more, and a target it does not hold goes
\* through the entry gate.
C36_InlineCacheHoldsMappedPrefix ==
  /\ [](\A a \in ExecAddrs :
          (Following /\ is_indirect(a) /\ a \in exec_ctx.mappings) =>
            LET ic == InlineCache(exec_blocks, scratch_slab, a) IN
              \A i \in IcIndex :
                ic[i].real_start # NULL =>
                  /\ \A j \in IcIndex : j < i => ic[j].real_start # NULL
                  /\ \A j \in IcIndex :
                       j # i => ic[j].real_start # ic[i].real_start
                  /\ ic[i].real_start \in exec_ctx.mappings
                  /\ ic[i] = IcPair(ic[i].real_start))
  /\ [][\A a \in ExecAddrs :
          (/\ Following /\ is_indirect(a) /\ a \in exec_ctx.mappings
           /\ IcFull(InlineCache(exec_blocks, scratch_slab, a))
           /\ ~(exec_blocks[a].invalidated /\ ~exec_blocks'[a].invalidated))
            => /\ InlineCache(exec_blocks', scratch_slab', a)
                    = InlineCache(exec_blocks, scratch_slab, a)
               /\ (/\ exec_pc.at = "site" /\ exec_pc.blk = a
                   /\ ic_matches(InlineCache(exec_blocks, scratch_slab, a),
                                 exec_pc.target) = {}
                   /\ exec_pc' # exec_pc)
                    => exec_pc'.at = "resolved"]_vars

(***************************************************************************)
(* An indirect call site and its inline cache (SpecSite)                   *)
(*                                                                         *)
(* A followed thread runs a dispatcher: a block that ends in call [mem],   *)
(* whose target is one of NTargets functions, chosen by the guest in any   *)
(* order, round-robin included.  The code that                             *)
(* gum_exec_block_write_call_invoke_code emits looks the target up in the  *)
(* IcEntry array of the site and calls the call_mem entry gate when it is  *)
(* not there.  The called function returns to the dispatcher; the gates    *)
(* of the return path are not the call_mem gate and are left out.          *)
(***************************************************************************)
\* The size of the inline cache (the ic-entries property of GumStalker).
site_ic_entries == 4

\* Bounds: the functions the dispatcher calls, and the entries into the
\* call_mem gate that are counted for each.
NTargets == 3
MaxGate == 4

SiteTargets == 1..NTargets
SiteAddr == NTargets + 1
SiteAddrs == SiteTargets \cup {SiteAddr}

\* The block of the call site: its IcEntry array is written empty.
SiteBlock ==
  [NoExecBlock EXCEPT !.ic = [i \in 1..site_ic_entries |-> EmptyIcEntry]]

\* The block whose translation starts at a code address.
SiteBlockAt(code) == CHOOSE a \in SiteAddrs : code_address(a) = code

\* Before the thread calls gum_stalker_follow_me.
SiteInit ==
  /\ site_ctx = NoCtx
  /\ site_pc = [at |-> "original", target |-> NULL]
  /\ site_blocks = [a \in SiteAddrs |-> NoExecBlock]
  /\ call_mem = [t \in SiteTargets |-> 0]

\* _gum_stalker_do_follow_me: the block of the dispatcher is compiled and
\* the thread enters it.
SiteFollowMe ==
  /\ ~site_ctx.live
  /\ site_pc.at = "original"
  /\ LET cx == [gum_exec_ctx_new(1) EXCEPT !.mappings = {SiteAddr}]
     IN site_ctx' = follow_me_obtained(cx, SiteAddr).cx
  /\ site_blocks' = [site_blocks EXCEPT ![SiteAddr] = SiteBlock]
  /\ site_pc' = [at |-> "dispatch", target |-> NULL]
  /\ UNCHANGED <<call_mem, notSiteVars>>

\* The dispatcher loads the address of the function to call.
Dispatch(t) ==
  /\ site_pc.at = "dispatch"
  /\ site_pc' = [at |-> "site", target |-> t]
  /\ UNCHANGED <<site_ctx, site_blocks, call_mem, notSiteVars>>

\* The lookup code finds the target in the inline cache and jumps to the
\* code_start of the entry.
CallInlineCacheHit ==
  /\ site_pc.at = "site"
  /\ LET ic == site_blocks[SiteAddr].ic
         hits == ic_matches(ic, site_pc.target)
     IN /\ hits # {}
        /\ LET i == CHOOSE i \in hits : \A j \in hits : i <= j
           IN site_pc' = [at |-> "callee",
                          target |-> SiteBlockAt(ic[i].code_start)]
  /\ UNCHANGED <<site_ctx, site_blocks, call_mem, notSiteVars>>

\* Cache miss: the call_mem entry gate, which tells the observer and calls
\* gum_exec_ctx_switch_block.
CallMemEntryGate ==
  /\ site_pc.at = "site"
  /\ ic_matches(site_blocks[SiteAddr].ic, site_pc.target) = {}
  /\ call_mem[site_pc.target] < MaxGate
  /\ LET a == site_pc.target
         r == gum_exec_ctx_switch_block(site_ctx, a)
         cx == [r.cx EXCEPT !.mappings = @ \cup {a}]
         xb == exec_obtain_block_for(site_ctx, site_blocks, a,
                                     trust_threshold)
     IN /\ call_mem' = [call_mem EXCEPT ![a] = @ + 1]
        /\ IF r.done
             THEN /\ site_ctx' = r.cx
                  /\ UNCHANGED site_blocks
             ELSE /\ site_ctx' = switch_block_obtained(cx, a).cx
                  /\ site_blocks' = flag_activation_target(cx, xb, a)
  /\ site_pc' = [site_pc EXCEPT !.at = "resolved"]
  /\ UNCHANGED notSiteVars

\* Back from the gate, the code at the beach label hands ctx->current_block
\* to gum_exec_block_backpatch_inline_cache and jumps to ctx->resume_at.
CallBackpatchAndResume ==
  /\ site_pc.at = "resolved"
  /\ LET st == gum_exec_block_backpatch_inline_cache(
                 site_ctx, trust_threshold,
                 [b |-> site_blocks, s |-> scratch_slab, n |-> NoBackpatch],
                 site_ctx.current_block, SiteAddr)
     IN site_blocks' = st.b
  /\ site_pc' = IF site_ctx.current_block = NULL
                  THEN [at |-> "original", target |-> site_ctx.resume_at]
                  ELSE [at |-> "callee", target |-> site_ctx.current_block]
  /\ UNCHANGED <<site_ctx, call_mem, notSiteVars>>

\* The called function returns and the dispatcher comes round to its call
\* again.
CalleeReturn ==
  /\ site_pc.at = "callee"
  /\ site_pc' = [at |-> "dispatch", target |-> NULL]
  /\ UNCHANGED <<site_ctx, site_blocks, call_mem, notSiteVars>>

SiteNext ==
  \/ SiteFollowMe
  \/ \E t \in SiteTargets : Dispatch(t)
  \/ CallInlineCacheHit
  \/ CallMemEntryGate
  \/ CallBackpatchAndResume
  \/ CalleeReturn

\* The targets the inline cache of the call site holds.
Cached == {t \in SiteTargets : ic_matches(site_blocks[SiteAddr].ic, t) # {}}

\* C18: at an indirect call site with 4 inline-cache entries and 3 targets,
\* under the default trust threshold of 1, every target reaches the
\* call_mem gate at most 3 times; a target that has been through the gate
\* and its backpatch that often is in the inline cache; and once the cache
\* holds all the targets every call is resolved in the cache, the thread
\* entering the function called, and the counts of the gate stay as they
\* are.
C18_CallSiteWarmsUp ==
  [][/\ \A t \in SiteTargets : call_mem'[t] <= 3
     /\ \A t \in SiteTargets :
          (call_mem'[t] >= 2 /\ ~(site_pc'.at = "resolved"
                                    /\ site_pc'.target = t))
            => t \in Cached'
     /\ Cached = SiteTargets
          => /\ call_mem' = call_mem
             /\ Cached' = SiteTargets
             /\ site_pc.at = "site"
                  => site_pc' = [at |-> "callee", target |-> site_pc.target]
    ]_vars

\* The cache holds the three targets, each after two passes of the gate,
\* and the thread has entered a function through a cache hit.
C18_Witness ==
  /\ Cached = SiteTargets
  /\ NTargets = 3
  /\ \A t \in SiteTargets : call_mem[t] = 2
  /\ site_pc.at = "callee"
  /\ site_blocks[site_pc.target].recycle_count = 1

(***************************************************************************)
(* Invalidating a block of another thread (SpecInval, SpecInvalFair)       *)
(*                                                                         *)
(* The victim is a followed thread that enters one block of its context    *)
(* again and again.  Other threads call gum_stalker_invalidate_for_thread  *)
(* for the block's guest address.  The first                               *)
(* GUM_INVALIDATE_TRAMPOLINE_SIZE bytes of the block, its head, hold       *)
(* translated code or the trampoline that gum_exec_block_invalidate        *)
(* writes; the trampoline is several instructions long and is written      *)
(* piece by piece.                                                         *)
(*                                                                         *)
(* victim.pc: "elsewhere"    other translated code of the context          *)
(*            "obtain"       in gum_exec_ctx_obtain_block_for, the block   *)
(*                           not mapped yet, waiting for the code lock     *)
(*            "compiling"    compiling the block, holding the code lock    *)
(*            "window"       inside the head of the block                  *)
(*            "body"         in the block, past its head                   *)
(*            "invalidator"  called by the trampoline, on its way to       *)
(*                           gum_exec_ctx_recompile_block                  *)
(*            "recompiling"  recompiling the block, holding the code lock  *)
(*            "crashed"      has run a head that was half written          *)
(***************************************************************************)
VictimId == 1
Invalidators == {2, 3}

NoInval == [pc |-> "idle", is_executing_target_block |-> FALSE]

InvalInit ==
  /\ victim = [pc |-> "elsewhere", stopped |-> FALSE]
  /\ head = "unmapped"
  /\ inval = [c \in Invalidators |-> NoInval]
  /\ inv_lock = NULL

\* A test that takes no program counter for one inside the head (used to
\* test C21).
pc_never_in_trampoline_window(pc) == FALSE

\* gum_stalker_try_invalidate_block_owned_by_thread: the program counter of
\* the stopped thread is inside [code_start, code_start +
\* GUM_INVALIDATE_TRAMPOLINE_SIZE).
pc_in_trampoline_window(pc) == pc = "window"

\* The victim jumps to the block's guest address: through an entry gate
\* when the block is not mapped, else to its code_start.
VictimEnter ==
  /\ victim.pc = "elsewhere"
  /\ ~victim.stopped
  /\ victim' = [victim EXCEPT !.pc = IF head = "unmapped"
                                       THEN "obtain" ELSE "window"]
  /\ UNCHANGED <<head, inval, inv_lock, notInvalVars>>

\* gum_exec_ctx_obtain_block_for takes the code lock, ...
VictimObtain ==
  /\ victim.pc = "obtain"
  /\ ~victim.stopped
  /\ gum_spinlock_acquire(inv_lock)
  /\ inv_lock' = VictimId
  /\ victim' = [victim EXCEPT !.pc = "compiling"]
  /\ UNCHANGED <<head, inval, notInvalVars>>

\* ... compiles and inserts the block, releases the lock and returns its
\* code_start, where the victim resumes.
VictimCompile ==
  /\ victim.pc = "compiling"
  /\ ~victim.stopped
  /\ head' = "code"
  /\ inv_lock' = NULL
  /\ victim' = [victim EXCEPT !.pc = "window"]
  /\ UNCHANGED <<inval, notInvalVars>>

\* A trampoline that runs on into the old code of the block (used to test
\* C22).
head_runs_old_code(h) ==
  CASE h \in {"code", "trampoline"} -> "body"
    [] OTHER -> "crashed"

\* Where the bytes of the head take the thread that executes them:
\* translated code goes on into the rest of the block, the trampoline of
\* gum_exec_block_invalidate calls the slab's invalidator, which calls
\* gum_exec_ctx_recompile_and_switch_block.
head_leads_to(h) ==
  CASE h = "code" -> "body"
    [] h = "trampoline" -> "invalidator"
    [] OTHER -> "crashed"

\* The victim executes the head of the block.
VictimRunHead ==
  /\ victim.pc = "window"
  /\ ~victim.stopped
  /\ victim' = [victim EXCEPT !.pc = head_leads_to(head)]
  /\ UNCHANGED <<head, inval, inv_lock, notInvalVars>>

\* The branch that ends the block.
VictimLeave ==
  /\ victim.pc = "body"
  /\ ~victim.stopped
  /\ victim' = [victim EXCEPT !.pc = "elsewhere"]
  /\ UNCHANGED <<head, inval, inv_lock, notInvalVars>>

\* gum_exec_ctx_recompile_and_switch_block: gum_exec_ctx_recompile_block
\* takes the code lock, ...
VictimRecompileEnter ==
  /\ victim.pc = "invalidator"
  /\ ~victim.stopped
  /\ gum_spinlock_acquire(inv_lock)
  /\ inv_lock' = VictimId
  /\ victim' = [victim EXCEPT !.pc = "recompiling"]
  /\ UNCHANGED <<head, inval, notInvalVars>>

\* ... writes the new code over the block and releases the lock; resume_at
\* is the block's code_start.
VictimRecompile ==
  /\ victim.pc = "recompiling"
  /\ ~victim.stopped
  /\ head' = "code"
  /\ inv_lock' = NULL
  /\ victim' = [victim EXCEPT !.pc = "window"]
  /\ UNCHANGED <<inval, notInvalVars>>

VictimStep ==
  \/ VictimEnter
  \/ VictimObtain
  \/ VictimCompile
  \/ VictimRunHead
  \/ VictimLeave
  \/ VictimRecompileEnter
  \/ VictimRecompile

\* gum_stalker_invalidate_for_thread, called by a thread that is not
\* followed: the victim's context is found.
InvalidateCall(c) ==
  /\ inval[c].pc = "idle"
  /\ inval' = [inval EXCEPT ![c] = [NoInval EXCEPT !.pc = "spin"]]
  /\ UNCHANGED <<victim, head, inv_lock, notInvalVars>>

\* gum_stalker_do_invalidate takes the code lock and looks the block up.
DoInvalidate(c) ==
  /\ inval[c].pc = "spin"
  /\ gum_spinlock_acquire(inv_lock)
  /\ inv_lock' = c
  /\ inval' = [inval EXCEPT ![c] =
                 [pc |-> IF head = "unmapped" THEN "unlock" ELSE "modify",
                  is_executing_target_block |-> FALSE]]
  /\ UNCHANGED <<victim, head, notInvalVars>>

\* gum_process_modify_thread stops the victim, ...
ModifyThread(c) ==
  /\ inval[c].pc = "modify"
  /\ victim' = [victim EXCEPT !.stopped = TRUE]
  /\ inval' = [inval EXCEPT ![c].pc = "try"]
  /\ UNCHANGED <<head, inv_lock, notInvalVars>>

\* ... calls gum_stalker_try_invalidate_block_owned_by_thread with its
\* registers: gum_exec_block_invalidate starts to write the trampoline
\* unless the program counter is inside the head, ...
TryInvalidate(c) ==
  /\ inval[c].pc = "try"
  /\ IF pc_in_trampoline_window(victim.pc)
       THEN /\ inval' = [inval EXCEPT ![c] =
                           [pc |-> "resume",
                            is_executing_target_block |-> TRUE]]
            /\ UNCHANGED head
       ELSE /\ inval' = [inval EXCEPT ![c].pc = "write"]
            /\ head' = "partial"
  /\ UNCHANGED <<victim, inv_lock, notInvalVars>>

\* ... gum_exec_block_invalidate writes the rest of the trampoline, ...
WriteTrampoline(c) ==
  /\ inval[c].pc = "write"
  /\ head' = "trampoline"
  /\ inval' = [inval EXCEPT ![c].pc = "resume"]
  /\ UNCHANGED <<victim, inv_lock, notInvalVars>>

\* ... and lets the victim go on.
ResumeThread(c) ==
  /\ inval[c].pc = "resume"
  /\ victim' = [victim EXCEPT !.stopped = FALSE]
  /\ inval' = [inval EXCEPT ![c].pc = "unlock"]
  /\ UNCHANGED <<head, inv_lock, notInvalVars>>

\* gum_stalker_do_invalidate releases the lock and returns
\* !is_executing_target_block: the loop of
\* gum_stalker_invalidate_for_thread ends or yields.
DoInvalidateReturn(c) ==
  /\ inval[c].pc = "unlock"
  /\ inv_lock' = NULL
  /\ inval' = [inval EXCEPT ![c].pc =
                 IF inval[c].is_executing_target_block
                   THEN "yield" ELSE "idle"]
  /\ UNCHANGED <<victim, head, notInvalVars>>

\* g_thread_yield, and the next turn of the loop.
Yield(c) ==
  /\ inval[c].pc = "yield"
  /\ inval' = [inval EXCEPT ![c].pc = "spin"]
  /\ UNCHANGED <<victim, head, inv_lock, notInvalVars>>

InvalidatorStep(c) ==
  \/ DoInvalidate(c)
  \/ ModifyThread(c)
  \/ TryInvalidate(c)
  \/ WriteTrampoline(c)
  \/ ResumeThread(c)
  \/ DoInvalidateReturn(c)
  \/ Yield(c)

\* What a running thread does without the guest program's leave: every
\* step of the victim but the jump back to the block.
VictimProgress ==
  \/ VictimObtain
  \/ VictimCompile
  \/ VictimRunHead
  \/ VictimLeave
  \/ VictimRecompileEnter
  \/ VictimRecompile

InvalNext ==
  \/ VictimStep
  \/ \E c \in Invalidators : InvalidateCall(c)
  \/ \E c \in Invalidators : InvalidatorStep(c)

\* C21: the head of a block owned by another thread is rewritten only
\* while that thread is stopped with its program counter outside the head;
\* when the program counter is inside nothing is written, the attempt
\* reports failure and the caller yields and tries again; so the victim
\* never runs a head that is half written.
C21_TrampolineWrittenBehindStoppedThread ==
  [][/\ head' = "partial"
          => (victim'.stopped /\ ~pc_in_trampoline_window(victim'.pc))
     /\ \A c \in Invalidators :
          /\ (inval[c].pc \in {"try", "write"} /\ head' # head)
               => /\ victim.stopped
                  /\ victim.pc # "window"
                  /\ victim' = victim
          /\ (inval[c].pc = "try" /\ inval'[c].pc # "try"
                /\ victim.pc = "window")
               => /\ head' = head
                  /\ inval'[c].is_executing_target_block
          /\ (inval[c].pc = "unlock" /\ inval'[c].pc # "unlock"
                /\ inval[c].is_executing_target_block)
               => inval'[c].pc = "yield"
     /\ victim'.pc # "crashed"
    ]_vars

\* An attempt has found the victim inside the head and has written nothing:
\* the caller is about to try again, the block holds its code.
C21_Witness ==
  \E c \in Invalidators :
    /\ inval[c].pc = "yield"
    /\ inval[c].is_executing_target_block
    /\ head = "code"
    /\ ~victim.stopped

\* C22: after an invalidation a thread that keeps coming back to the block
\* enters it through the trampoline and recompiles it, and from the
\* trampoline no code of the block runs before the recompilation; a call
\* of gum_stalker_invalidate_for_thread returns once the thread stays out
\* of the head of the block.
C22_InvalidatedBlockRecompiledOnEntry ==
  /\ ([]<>(victim.pc = "window"))
       => (head = "trampoline" ~> victim.pc = "recompiling")
  /\ [][(victim.pc = "window" /\ head = "trampoline")
          => victim'.pc \in {"window", "invalidator"}]_vars
  /\ [][victim.pc = "invalidator"
          => victim'.pc \in {"invalidator", "recompiling"}]_vars
  /\ [][(victim.pc = "recompiling" /\ victim'.pc # "recompiling")
          => head' = "code"]_vars
  /\ \A c \in Invalidators :
       (<>[](victim.pc # "window"))
         => (inval[c].pc # "idle" ~> inval[c].pc = "idle")

\* The invalidating calls have returned and the victim, back at the block,
\* has gone through the trampoline into gum_exec_ctx_recompile_block.
C22_Witness ==
  /\ victim.pc = "recompiling"
  /\ head = "trampoline"
  /\ \A c \in Invalidators : inval[c].pc = "idle"

(***************************************************************************)
(* gum_stalker_stop (SpecStopFair)                                         *)
(***************************************************************************)
\* The first listed context in state ACTIVE, NULL when there is none: what
\* the for loop of gum_stalker_stop stops at.
first_active_ctx ==
  LET hits == {i \in 1..Len(contexts) :
                 ctx[contexts[i]].state = GUM_EXEC_CTX_ACTIVE}
  IN IF hits = {} THEN NULL
     ELSE contexts[CHOOSE i \in hits : \A j \in hits : i <= j]

\* gum_stalker_stop is called by native code.
StopCall(t) ==
  /\ Running(t)
  /\ thr[t].pc = "native"
  /\ thr[t].xs = <<>>
  /\ thr' = [thr EXCEPT ![t] = [@ EXCEPT !.pc = "stop", !.k = "stop"]]
  /\ UNCHANGED <<contexts, ctx, tls, aborted>>
  /\ UNCHANGED sink
  /\ UNCHANGED notLifeVars

\* One turn from rescan that finds an active context of the caller:
\* gum_stalker_unfollow is gum_stalker_unfollow_me, which looks in the
\* caller's TLS slot.
StopUnfollowMe(t) ==
  /\ Running(t)
  /\ thr[t].pc = "stop"
  /\ first_active_ctx # NULL
  /\ ctx[first_active_ctx].thread_id = t
  /\ IF tls[t] = NULL
       THEN UNCHANGED <<contexts, ctx, tls, aborted, thr, sink>>
       ELSE LET c == tls[t]
                r == gum_stalker_unfollow_me(ctx[c])
            IN
            \E asserts \in BOOLEAN :
              LET failed == /\ asserts
                            /\ r.done
                            /\ ~r.cx.unfollow_called_while_still_following
                  destroy == r.done /\ ~failed
              IN
               /\ ctx' = [ctx EXCEPT ![c] =
                            IF destroy
                              THEN gum_exec_ctx_free(contexts, c, r.cx)
                              ELSE r.cx]
               /\ contexts' = IF destroy THEN RemoveCtx(contexts, c)
                              ELSE contexts
               /\ tls' = ClearTlsIf(t, r.done)
               /\ aborted' = failed
               /\ sink' = IF destroy
                            THEN gum_event_sink_stop(
                                   sink, InList(contexts, c), c, r.cx)
                            ELSE sink
               /\ thr' = ForgetIf(destroy, thr, c)
  /\ UNCHANGED notLifeVars

\* One turn from rescan that finds an active context of another thread:
\* gum_stalker_unfollow looks the thread's context up; the rest of the call
\* is UnfollowApply, and then rescan again.
StopUnfollow(t) ==
  /\ Running(t)
  /\ thr[t].pc = "stop"
  /\ first_active_ctx # NULL
  /\ LET u == ctx[first_active_ctx].thread_id IN
     /\ u # t
     /\ thr' = [thr EXCEPT ![t] =
                  [@ EXCEPT !.pc = "found", !.arg = u,
                            !.c = gum_stalker_find_exec_ctx_by_thread_id(u)]]
  /\ UNCHANGED <<contexts, ctx, tls, aborted>>
  /\ UNCHANGED sink
  /\ UNCHANGED notLifeVars

\* The for loop ends without an active context.
StopScanDone(t) ==
  /\ Running(t)
  /\ thr[t].pc = "stop"
  /\ first_active_ctx = NULL
  /\ thr' = [thr EXCEPT ![t] = [@ EXCEPT !.pc = "stop_gc"]]
  /\ UNCHANGED <<contexts, ctx, tls, aborted>>
  /\ UNCHANGED sink
  /\ UNCHANGED notLifeVars

\* gum_stalker_garbage_collect at the end of gum_stalker_stop, all turns of
\* its loop: every listed context that is destroy_pending and either the
\* caller's or 20 ms old, or whose thread is gone, is destroyed; then
\* gum_stalker_stop returns.
StopCollect(t) ==
  /\ Running(t)
  /\ thr[t].pc = "stop_gc"
  /\ \E elapsed \in BOOLEAN :
       LET dead(c) ==
             \/ destroy_pending_and_thread_likely_back_in_original_code(
                  ctx[c], t, elapsed)
             \/ ~gum_process_has_thread(ctx[c].thread_id)
           gone == {c \in CtxIds : InList(contexts, c) /\ dead(c)}
       IN
       /\ ctx' = [c \in CtxIds |-> IF c \in gone THEN NoCtx ELSE ctx[c]]
       /\ contexts' = SelectSeq(contexts, LAMBDA c : c \notin gone)
       /\ sink' = [c \in CtxIds |->
                     gum_event_sink_stop(sink, c \in gone, c, ctx[c])[c]]
       /\ thr' = [u \in Threads |->
                    IF u = t
                      THEN [thr[t] EXCEPT !.pc = "native", !.k = "none"]
                      ELSE IF thr[u].c \in gone THEN Forget(thr[u], thr[u].c)
                           ELSE thr[u]]
  /\ UNCHANGED <<tls, aborted>>
  /\ UNCHANGED notLifeVars

\* The steps of a thread inside gum_stalker_stop.
InStop(t) ==
  thr[t].k = "stop" /\ thr[t].pc \in {"stop", "found", "stop_gc"}

StopStep(t) ==
  \/ StopUnfollowMe(t)
  \/ StopUnfollow(t)
  \/ InStop(t) /\ UnfollowApply(t)
  \/ StopScanDone(t)
  \/ StopCollect(t)

\* No call of gum_stalker_stop is under way.
NoStop == \A t \in Threads : ~InStop(t)

\* The life cycle with gum_stalker_stop, which is not called while threads
\* are being followed: no context is created while it runs.
StopNext ==
  \/ NoStop /\ \E t \in Threads : FollowMe(t)
  \/ NoStop /\ \E t, u \in Threads : Follow(t, u)
  \/ \E t \in Threads : TransformReturn(t)
  \/ \E t \in Threads : Gate(t)
  \/ \E t \in Threads : RecompileAndSwitchBlock(t)
  \/ \E t \in Threads : UnfollowCheck(t)
  \/ \E t \in Threads : UnfollowMe(t)
  \/ \E t \in Threads : Deactivate(t)
  \/ \E t \in Threads : Activate(t)
  \/ \E t \in Threads : ExcludedCall(t)
  \/ \E t \in Threads : ExcludedReturn(t)
  \/ \E t \in Threads : CalloutEnter(t)
  \/ \E t \in Threads : CalloutReturn(t)
  \/ \E t \in Threads : ProbeEnter(t)
  \/ \E t \in Threads : ProbeReturn(t)
  \/ \E t \in Threads : ThunkEnter(t)
  \/ \E t \in Threads : ThunkDone(t)
  \/ \E t, u \in Threads : UnfollowFind(t, u)
  \/ \E t \in Threads : UnfollowApply(t)
  \/ \E t \in Threads : GarbageCollect(t)
  \/ \E t \in Threads : ThreadExit(t)
  \/ NoStop /\ \E t \in Threads : StopCall(t)
  \/ \E t \in Threads : StopStep(t)

\* C23: a call of gum_stalker_stop returns (or the process is gone),
\* whichever thread makes it and whichever threads own contexts.
C23_StopReturns ==
  \A t \in Threads : InStop(t) ~> (~InStop(t) \/ aborted)

(***************************************************************************)
(* gum_stalker_destroy_exec_ctx in steps (SpecDestroy)                     *)
(*                                                                         *)
(* The life cycle above destroys a context in the step that decides to.    *)
(* Here the callers of gum_stalker_destroy_exec_ctx are taken apart: a     *)
(* thread at "destroy" holds the pointer it is about to pass, a thread at  *)
(* "dispose" has unlinked the context and is about to dispose and free it. *)
(* Context ids stand for addresses: a freed one is handed out again, and a *)
(* pointer to it then names the new context.                               *)
(***************************************************************************)
\* A g_slist_find that finds whatever it is asked for (used to test C24).
entry_always_found(list, c) == TRUE

\* g_slist_find (self->contexts, ctx) != NULL, under the engine's lock.
entry_found(list, c) == InList(list, c)

\* gum_stalker_garbage_collect, the for loop up to GUM_STALKER_UNLOCK: it
\* stops at a context to destroy.
CollectPick(t) ==
  /\ Running(t)
  /\ thr[t].pc = "native"
  /\ \E i \in 1..Len(contexts), elapsed \in BOOLEAN :
       LET c == contexts[i] IN
       /\ \/ destroy_pending_and_thread_likely_back_in_original_code(
               ctx[c], t, elapsed)
          \/ ~gum_process_has_thread(ctx[c].thread_id)
       /\ thr' = [thr EXCEPT ![t] = [@ EXCEPT !.pc = "destroy", !.c = c]]
  /\ UNCHANGED <<contexts, ctx, tls, aborted>>
  /\ UNCHANGED sink
  /\ UNCHANGED notLifeVars

\* gum_stalker_unfollow_me up to its call of gum_stalker_destroy_exec_ctx.
UnfollowMePoll(t) ==
  /\ Running(t)
  /\ thr[t].pc \in {"native", "at_unfollow_me"}
  /\ tls[t] # NULL
  /\ LET c == tls[t]
         r == gum_stalker_unfollow_me(ctx[c])
     IN
     /\ r.done
     /\ \E asserts \in BOOLEAN :
          LET failed == /\ asserts
                        /\ ~r.cx.unfollow_called_while_still_following
          IN
          /\ ctx' = [ctx EXCEPT ![c] = r.cx]
          /\ tls' = ClearTlsIf(t, TRUE)
          /\ aborted' = failed
          /\ thr' = [thr EXCEPT ![t] =
                       IF failed THEN @
                       ELSE [@ EXCEPT !.pc = "destroy", !.c = c]]
  /\ UNCHANGED contexts
  /\ UNCHANGED sink
  /\ UNCHANGED notLifeVars

\* gum_stalker_destroy_exec_ctx, the part under the engine's lock: the
\* context is looked for in the list and unlinked; when it is not listed
\* the function returns.
DestroyUnlink(t) ==
  /\ Running(t)
  /\ thr[t].pc = "destroy"
  /\ IF entry_found(contexts, thr[t].c)
       THEN /\ contexts' = RemoveCtx(contexts, thr[t].c)
            /\ thr' = [thr EXCEPT ![t] = [@ EXCEPT !.pc = "dispose"]]
       ELSE /\ thr' = [thr EXCEPT ![t] =
                         [@ EXCEPT !.pc = "native", !.c = NULL]]
            /\ UNCHANGED contexts
  /\ UNCHANGED <<ctx, tls, aborted>>
  /\ UNCHANGED sink
  /\ UNCHANGED notLifeVars

\* What is left of a thread whose context is freed by another: one inside
\* a callback or with a pointer it has looked up keeps a dangling pointer,
\* one in the middle of destroying keeps the address, one inside the
\* engine or the translated code goes on in freed memory.
Orphan(th, c) ==
  IF th.c # c \/ th.pc \in {"destroy", "dispose"}
    THEN th
    ELSE IF th.pc \in {"callout", "probe", "found"}
      THEN [th EXCEPT !.c = NULL]
      ELSE [th EXCEPT !.pc = "zombie"]

\* gum_stalker_destroy_exec_ctx, the rest: gum_exec_ctx_dispose, the sink
\* is stopped, gum_exec_ctx_free.
DestroyFree(t) ==
  /\ Running(t)
  /\ thr[t].pc = "dispose"
  /\ LET c == thr[t].c IN
     /\ ctx' = [ctx EXCEPT ![c] = NoCtx]
     /\ sink' = gum_event_sink_stop(sink, TRUE, c, ctx[c])
     /\ thr' = [u \in Threads |->
                  IF u = t THEN [thr[t] EXCEPT !.pc = "native", !.c = NULL]
                  ELSE Orphan(thr[u], c)]
  /\ UNCHANGED <<contexts, tls, aborted>>
  /\ UNCHANGED notLifeVars

DestroyNext ==
  \/ Next
  \/ \E t \in Threads : CollectPick(t)
  \/ \E t \in Threads : UnfollowMePoll(t)
  \/ \E t \in Threads : DestroyUnlink(t)
  \/ \E t \in Threads : DestroyFree(t)

\* How often a context is listed, and the threads that are disposing of it.
Listed(c) == Cardinality({i \in 1..Len(contexts) : contexts[i] = c})
Disposers(c) == {t \in Threads : thr[t].pc = "dispose" /\ thr[t].c = c}

\* C24: a context is listed exactly once from its creation until
\* gum_stalker_destroy_exec_ctx unlinks it; of the threads that call
\* gum_stalker_destroy_exec_ctx for a context only the one that unlinked it
\* disposes and frees it, so that every free is the free of a context that
\* is allocated and no context is freed twice.
C24_ListedOnceFreedOnce ==
  [][/\ \A c \in CtxIds :
          /\ Listed(c)' + Cardinality(Disposers(c)') =
               IF ctx'[c].live THEN 1 ELSE 0
          /\ (Disposers(c)' \ Disposers(c)) # {}
               => Listed(c) = 1 /\ Listed(c)' = 0
     /\ \A t \in Threads :
          (thr[t].pc = "dispose" /\ thr'[t].pc # "dispose")
            => /\ ctx[thr[t].c].live
               /\ ~ctx'[thr[t].c].live
    ]_vars

\* Two threads have called gum_stalker_destroy_exec_ctx for the same
\* context: one has unlinked it, the other has yet to look for it.
C24_Witness ==
  \E t, u \in Threads :
    /\ thr[t].pc = "dispose"
    /\ thr[u].pc = "destroy"
    /\ thr[u].c = thr[t].c

(***************************************************************************)
(* The slabs of a context (SpecSlabs)                                      *)
(*                                                                         *)
(* A slab is its size and its offset, the cursor being data + offset.      *)
(* Sizes are counted in units: a block record takes BlockRecord units of a *)
(* data slab, and a code slab is given up for a new one when less than     *)
(* MinCapacity units of it are left (GUM_EXEC_BLOCK_MIN_CAPACITY plus the  *)
(* size of an inline cache).  Bounds: the sizes of the slabs, the slabs of *)
(* a kind, and the helper code written into a new code slab.               *)
(***************************************************************************)
CodeSlabSize == 5
DataSlabSize == 5
MaxSlabs == 3
MaxHelper == 1
MinCapacity == 2
BlockRecord == 2

\* gum_slab_init
gum_slab_init(size) == [offset |-> 0, size |-> size]

gum_slab_available(self) == self.size - self.offset

\* A reserve that does not look at what is left (used to test C30).
reserve_without_check(self, size) ==
  [ok |-> TRUE, cursor |-> self.offset,
   slab |-> [self EXCEPT !.offset = @ + size]]

\* gum_slab_try_reserve: [ok] is FALSE for the NULL it returns when the
\* slab has not that much left, [cursor] the offset of the cursor it
\* returns otherwise, [slab] the slab afterwards.
gum_slab_try_reserve(self, size) ==
  IF gum_slab_available(self) < size
    THEN [ok |-> FALSE, cursor |-> NULL, slab |-> self]
    ELSE [ok |-> TRUE, cursor |-> self.offset,
          slab |-> [self EXCEPT !.offset = @ + size]]

\* What is kept of a call: the slab before, the size asked for, the result.
Reserved(self, size) ==
  [before |-> self, size |-> size,
   ok |-> gum_slab_try_reserve(self, size).ok,
   cursor |-> gum_slab_try_reserve(self, size).cursor,
   after |-> gum_slab_try_reserve(self, size).slab]

\* gum_exec_ctx_add_code_slab, gum_exec_ctx_add_data_slab: the new slab
\* becomes the head, its next the old head.
add_slab(list, s) == <<s>> \o list

\* gum_exec_ctx_new: one code slab with the helpers written into it, one
\* data slab.
SlabInit ==
  /\ code_slab = <<[gum_slab_init(CodeSlabSize) EXCEPT !.offset = MaxHelper]>>
  /\ data_slab = <<gum_slab_init(DataSlabSize)>>
  /\ open_block = FALSE
  /\ reserved = Reserved(gum_slab_init(CodeSlabSize), MaxHelper)

\* gum_exec_block_new.  When the head code slab has less than a minimal
\* block left a new one is added, a new data slab with it when the old one
\* is out of reach (near), and the helpers that are out of reach are
\* written into the new code slab (helper units of them).  The block's
\* record is reserved in the head data slab, or in a new one when that is
\* full.
ExecBlockNew(near, helper) ==
  /\ ~open_block
  /\ LET fresh == gum_slab_available(code_slab[1]) < MinCapacity
         code1 == IF fresh
                    THEN add_slab(code_slab,
                           gum_slab_try_reserve(gum_slab_init(CodeSlabSize),
                                                helper).slab)
                    ELSE code_slab
         data1 == IF fresh /\ ~near
                    THEN add_slab(data_slab, gum_slab_init(DataSlabSize))
                    ELSE data_slab
         r == gum_slab_try_reserve(data1[1], BlockRecord)
         data2 == IF r.ok THEN [data1 EXCEPT ![1] = r.slab]
                  ELSE add_slab(data1,
                         gum_slab_try_reserve(gum_slab_init(DataSlabSize),
                                              BlockRecord).slab)
     IN /\ Len(code1) <= MaxSlabs
        /\ Len(data2) <= MaxSlabs
        /\ code_slab' = code1
        /\ data_slab' = data2
        /\ reserved' = Reserved(data1[1], BlockRecord)
  /\ open_block' = TRUE
  /\ UNCHANGED notSlabVars

\* gum_exec_block_commit: the block, compiled at the cursor of the head
\* code slab, takes capacity units of it.  The compiler ends a block
\* before the slab runs out (gum_stalker_iterator_is_out_of_space).
ExecBlockCommit(capacity) ==
  /\ open_block
  /\ capacity <= gum_slab_available(code_slab[1])
  /\ code_slab' = [code_slab EXCEPT ![1] =
                     gum_slab_try_reserve(@, capacity).slab]
  /\ reserved' = Reserved(code_slab[1], capacity)
  /\ open_block' = FALSE
  /\ UNCHANGED data_slab
  /\ UNCHANGED notSlabVars

SlabNext ==
  \/ \E near \in BOOLEAN, helper \in 0..MaxHelper : ExecBlockNew(near, helper)
  \/ \E capacity \in 1..CodeSlabSize : ExecBlockCommit(capacity)

\* C30: the offset of every code and data slab is between 0 and its size;
\* a reserve of n units returns the cursor as it was and moves the offset
\* by n when the slab has n units left, else it fails and leaves the offset
\* alone; and when the head code slab cannot hold a minimal block a new
\* slab becomes the head, with the slabs of before linked behind it.
C30_SlabCursorWithinSize ==
  /\ [](/\ \A i \in 1..Len(code_slab) :
             code_slab[i].offset >= 0 /\ code_slab[i].offset <= code_slab[i].size
        /\ \A i \in 1..Len(data_slab) :
             data_slab[i].offset >= 0 /\ data_slab[i].offset <= data_slab[i].size
        /\ IF reserved.size <= reserved.before.size - reserved.before.offset
             THEN /\ reserved.ok
                  /\ reserved.cursor = reserved.before.offset
                  /\ reserved.after.offset = reserved.before.offset + reserved.size
             ELSE /\ ~reserved.ok
                  /\ reserved.after.offset = reserved.before.offset)
  /\ [][(~open_block /\ open_block') =>
          IF gum_slab_available(code_slab[1]) < MinCapacity
            THEN /\ Tail(code_slab') = code_slab
                 /\ gum_slab_available(code_slab'[1]) >= MinCapacity
            ELSE code_slab' = code_slab]_vars
  /\ [][Len(data_slab') > Len(data_slab) => Tail(data_slab') = data_slab]_vars

\* The head code slab has been given up for a new one, and the reserve of
\* a block record has failed on a full data slab.
C30_Witness ==
  /\ Len(code_slab) > 1
  /\ gum_slab_available(code_slab[2]) < MinCapacity
  /\ ~reserved.ok
  /\ reserved.before.offset + reserved.size > reserved.before.size

(***************************************************************************)
(* A call instruction and the excluded ranges (SpecCall)                   *)
(*                                                                         *)
(* A followed thread executes a block that ends in a call: call imm with   *)
(* a target known to the compiler, or call reg / call [mem] with a target  *)
(* the guest chooses at each execution.  Callees are the functions it can  *)
(* call; gum_stalker_exclude puts the range of a callee on the list.       *)
(* gum_exec_block_virtualize_branch_insn decides at compilation what code  *)
(* the call becomes:                                                       *)
(*   "excluded"  raise pending_calls, run the original call, lower         *)
(*               pending_calls, go on through the excluded_call_imm gate   *)
(*   "invoke"    the code of gum_exec_block_write_call_invoke_code, that   *)
(*               takes the target to the call_imm, call_reg or call_mem    *)
(*               gate, which obtains a block for it                        *)
(* caller.pc: "start"  the block of the call is not compiled               *)
(*            "site"   at the call                                         *)
(*            "callee_native", "callee_xl"                                 *)
(*                     in the callee at caller.target, running the         *)
(*                     original code or a translation of it                *)
(*            "after"  at the instruction after the call, translated       *)
(***************************************************************************)
Callees == {1, 2}
CallKinds == {"imm", "reg", "mem"}

NoCallInsn == [kind |-> "none", target |-> NULL, code |-> "none"]

CallInit ==
  /\ exclusions = {}
  /\ call_insn = NoCallInsn
  /\ caller = [pc |-> "start", target |-> NULL, pending_calls |-> 0,
               pending_return_location |-> NULL, activation_target |-> NULL,
               compiled |-> {}]

\* gum_stalker_is_excluding
gum_stalker_is_excluding(list, address) ==
  address \in list

\* gum_stalker_exclude
Exclude(a) ==
  /\ a \notin exclusions
  /\ exclusions' = exclusions \cup {a}
  /\ UNCHANGED <<call_insn, caller>>
  /\ UNCHANGED notCallVars

\* _gum_stalker_do_activate, called before the block of the call is
\* compiled: the stores in the context.
CallActivate(a) ==
  /\ caller.pc = "start"
  /\ caller.activation_target = NULL
  /\ caller' = [caller EXCEPT !.activation_target = a]
  /\ UNCHANGED <<exclusions, call_insn>>
  /\ UNCHANGED notCallVars

\* The part of gum_exec_block_virtualize_branch_insn that handles
\* X86_INS_CALL: target_is_excluded is looked at only for a target that is
\* neither indirect nor in a register, and with no activation target.
target_is_excluded(kind, target, list, activation_target) ==
  /\ kind = "imm"
  /\ activation_target = NULL
  /\ gum_stalker_is_excluding(list, target)

gum_exec_block_virtualize_branch_insn(kind, target, list, activation_target) ==
  [kind |-> kind,
   target |-> IF kind = "imm" THEN target ELSE NULL,
   code |-> IF target_is_excluded(kind, target, list, activation_target)
              THEN "excluded" ELSE "invoke"]

CompileCall(kind, target) ==
  /\ caller.pc = "start"
  /\ call_insn' = gum_exec_block_virtualize_branch_insn(
                    kind, target, exclusions, caller.activation_target)
  /\ caller' = [caller EXCEPT !.pc = "site"]
  /\ UNCHANGED exclusions
  /\ UNCHANGED notCallVars

\* The thread executes the call with the target the guest gives it.  The
\* excluded code raises pending_calls and calls the original function; the
\* invoke code enters the gate, and gum_exec_ctx_switch_block obtains a
\* block for the target and drops an activation target that is reached.
ExecuteCall(target) ==
  /\ caller.pc = "site"
  /\ call_insn.kind = "imm" => target = call_insn.target
  /\ caller' =
       IF call_insn.code = "excluded"
         THEN [caller EXCEPT !.pc = "callee_native", !.target = target,
                             !.pending_return_location = "after",
                             !.pending_calls = @ + 1]
         ELSE [caller EXCEPT !.pc = "callee_xl", !.target = target,
                             !.compiled = @ \cup {target},
                             !.activation_target =
                               IF target = @ THEN NULL ELSE @]
  /\ UNCHANGED <<exclusions, call_insn>>
  /\ UNCHANGED notCallVars

\* The callee returns: the excluded code lowers pending_calls and goes to
\* the next instruction through the excluded_call_imm gate; the translated
\* callee returns to the translation of the next instruction.
CallReturns ==
  /\ caller.pc \in {"callee_native", "callee_xl"}
  /\ caller' = [caller EXCEPT
                  !.pc = "after", !.target = NULL,
                  !.pending_calls =
                    IF caller.pc = "callee_native" THEN @ - 1 ELSE @]
  /\ UNCHANGED <<exclusions, call_insn>>
  /\ UNCHANGED notCallVars

\* The guest comes back to the call, in the same block.
CallAgain ==
  /\ caller.pc = "after"
  /\ caller' = [caller EXCEPT !.pc = "site"]
  /\ UNCHANGED <<exclusions, call_insn>>
  /\ UNCHANGED notCallVars

\* The guest goes on to another call, in a block not yet compiled.
CallElsewhere ==
  /\ caller.pc = "after"
  /\ caller' = [caller EXCEPT !.pc = "start"]
  /\ call_insn' = NoCallInsn
  /\ UNCHANGED exclusions
  /\ UNCHANGED notCallVars

CallNext ==
  \/ \E a \in Callees : Exclude(a)
  \/ \E a \in Callees : CallActivate(a)
  \/ \E kind \in CallKinds, target \in Callees : CompileCall(kind, target)
  \/ \E target \in Callees : ExecuteCall(target)
  \/ CallReturns
  \/ CallAgain
  \/ CallElsewhere

\* C31: a call whose target is in an excluded range, executed with no
\* activation target pending, runs the callee natively: no block is
\* compiled for the callee, pending_calls is raised for the time of the
\* call and is back at its value at the instruction after the call, where
\* translation resumes - for call reg and call [mem] as for call imm.
C31_ExcludedCalleeRunsNatively ==
  /\ [][(/\ caller.pc = "site" /\ caller'.pc # "site"
         /\ caller'.target \in exclusions
         /\ caller.activation_target = NULL)
        => /\ caller'.pc = "callee_native"
           /\ caller'.compiled = caller.compiled
           /\ caller'.pending_calls = caller.pending_calls + 1]_vars
  /\ [][(caller.pc = "callee_native" /\ caller'.pc # "callee_native")
        => /\ caller'.pc = "after"
           /\ caller'.pending_calls = caller.pending_calls - 1]_vars

(***************************************************************************)
(* The lookup code of an inline cache (SpecLookup)                         *)
(*                                                                         *)
(* A followed thread executes, again and again, a block that ends in an    *)
(* indirect jmp or call.  The code that                                    *)
(* gum_exec_block_write_jmp_transfer_code and                              *)
(* gum_exec_block_write_call_invoke_code emit holds the IcEntry array,     *)
(* behind it the word ic_match, and behind that the lookup loop, which     *)
(* walks the memory from the array on in steps of an IcEntry.  The target  *)
(* is whatever the guest has computed: the address of one of its           *)
(* functions, NULL, an address inside the context's code slab, or any      *)
(* other word, for which the value of GUM_IC_MAGIC_SCRATCH stands.         *)
(* lk_pc.at: "block"  in the block, before the branch                      *)
(*           "site"   at the lookup code, the target computed              *)
(*           "hit"    the lookup has found the target and jumps to dest    *)
(*           "gate"   the lookup has missed and enters the gate            *)
(*           "lost"   the thread has jumped to what is no code             *)
(***************************************************************************)
GUM_IC_MAGIC_SCRATCH == 61453

\* Bound: the functions the guest branches to; more than the array holds.
NFunctions == 3

LookupTargets == 1..NFunctions
LookupCode == {code_address(t) : t \in LookupTargets}
DynamicTargets ==
  LookupTargets \cup LookupCode \cup {NULL, GUM_IC_MAGIC_SCRATCH}

\* gum_exec_block_write_jmp_transfer_code, up to the label look_in_cache:
\* the array is written empty and ic_match holds the scratch token.
LookupInit ==
  /\ lk_entries = EmptyIc
  /\ lk_match = GUM_IC_MAGIC_SCRATCH
  /\ lk_mappings = {}
  /\ lk_pc = [at |-> "block", target |-> NULL, dest |-> NULL]

\* The memory from the array on, read as IcEntry: the entries, then
\* ic_match with the first bytes of the lookup code.
LookupMemory(entries, match) ==
  Append(entries, [real_start |-> match, code_start |-> CODE_BYTES])

\* The loop: XCX goes from the first entry up in steps of an IcEntry while
\* it is less than or equal to XBX, the address of ic_entries[n] (jle
\* loop).  A slot that holds the target ends the walk: a hit, or for a
\* NULL target a miss.  The result is the slot of the hit, 0 for a miss.
RECURSIVE ic_lookup(_, _, _, _)
ic_lookup(memory, xcx, xbx, target) ==
  IF memory[xcx].real_start = target
    THEN IF target = NULL THEN 0 ELSE xcx
    ELSE IF xcx + 1 <= xbx
      THEN ic_lookup(memory, xcx + 1, xbx, target)
      ELSE 0

LookupSlot ==
  ic_lookup(LookupMemory(lk_entries, lk_match), 1, ic_entries + 1,
            lk_pc.target)

\* The guest computes a target and reaches the branch.
LookupBranch(target) ==
  /\ lk_pc.at = "block"
  /\ lk_pc' = [at |-> "site", target |-> target, dest |-> NULL]
  /\ UNCHANGED <<lk_entries, lk_match, lk_mappings>>
  /\ UNCHANGED notLookupVars

\* A match: the code_start of the slot is stashed in ic_match and jumped
\* to through it.
LookupHit ==
  /\ lk_pc.at = "site"
  /\ LookupSlot # 0
  /\ LET slot == LookupMemory(lk_entries, lk_match)[LookupSlot] IN
       /\ lk_match' = slot.code_start
       /\ lk_pc' = [lk_pc EXCEPT !.at = "hit", !.dest = slot.code_start]
  /\ UNCHANGED <<lk_entries, lk_mappings>>
  /\ UNCHANGED notLookupVars

\* A miss: the entry gate.  gum_exec_ctx_switch_block resumes at a target
\* that lies in the code slab, with no current block, and obtains a block
\* for any other; the backpatcher is called with the current block and
\* does its work when gum_exec_ctx_may_now_backpatch lets it (allowed).
LookupMiss(allowed) ==
  /\ lk_pc.at = "site"
  /\ LookupSlot = 0
  /\ LET a == lk_pc.target
         slot == ic_slot(lk_entries, a)
     IN IF a \in LookupCode
          THEN /\ lk_pc' = [lk_pc EXCEPT !.at = "gate", !.dest = a]
               /\ allowed
               /\ UNCHANGED <<lk_entries, lk_mappings>>
          ELSE /\ lk_pc' = [lk_pc EXCEPT !.at = "gate",
                                         !.dest = code_address(a)]
               /\ lk_mappings' = lk_mappings \cup {a}
               /\ lk_entries' =
                    IF /\ allowed
                       /\ a \in LookupTargets
                       /\ slot # 0
                       /\ lk_entries[slot].real_start = NULL
                      THEN [lk_entries EXCEPT ![slot] =
                              [real_start |-> a,
                               code_start |-> code_address(a)]]
                      ELSE lk_entries
  /\ UNCHANGED lk_match
  /\ UNCHANGED notLookupVars

\* The thread goes on where the lookup or the gate sent it: in the
\* translation of a function, which brings it back to the branch, or in
\* what is no code of the guest.
LookupResume ==
  /\ lk_pc.at \in {"hit", "gate"}
  /\ lk_pc' = [at |-> IF lk_pc.dest \in LookupCode THEN "block" ELSE "lost",
               target |-> NULL, dest |-> NULL]
  /\ UNCHANGED <<lk_entries, lk_match, lk_mappings>>
  /\ UNCHANGED notLookupVars

LookupNext ==
  \/ \E target \in DynamicTargets : LookupBranch(target)
  \/ LookupHit
  \/ \E allowed \in BOOLEAN : LookupMiss(allowed)
  \/ LookupResume

\* C35: the lookup compares the target with exactly the ic_entries entries
\* of the site: it reports a hit, and jumps to the code address stored,
\* only when one of them holds a guest address equal to the target, never
\* for a NULL target, and in every other case it enters the gate.
C35_LookupComparesTheEntriesOnly ==
  [][(lk_pc.at = "site" /\ lk_pc'.at # "site") =>
       LET hits == {i \in IcIndex :
                      /\ lk_entries[i].real_start = lk_pc.target
                      /\ lk_pc.target # NULL}
       IN IF hits # {}
            THEN /\ lk_pc'.at = "hit"
                 /\ \E i \in hits : lk_pc'.dest = lk_entries[i].code_start
            ELSE lk_pc'.at = "gate"]_vars

(***************************************************************************)
(* The specifications                                                      *)
(***************************************************************************)
Init ==
  /\ LifeInit
  /\ FramesInit
  /\ BlocksInit
  /\ ExecInit
  /\ SiteInit
  /\ InvalInit
  /\ SlabInit
  /\ CallInit
  /\ LookupInit

Spec == Init /\ [][Next]_vars

SpecFrames == Init /\ [][FramesNext]_vars

SpecBlocks == Init /\ [][BlocksNext]_vars

\* The state in which a loop of any guest code starts.
LoopInit ==
  /\ LifeInit /\ FramesInit /\ ExecInit /\ SiteInit /\ InvalInit /\ SlabInit /\ CallInit /\ LookupInit
  /\ mem \in {m \in [MemCells -> GuestBytes] : m[MemSize] = INSN_RET}
  /\ slab = [i \in SlabCells |-> 0]
  /\ offset = 0
  /\ blocks = [b \in BlockIds |-> NoBlock]
  /\ mappings = [a \in BlockStarts |-> NULL]
  /\ installed = [a \in BlockStarts |-> {}]
  /\ trust_threshold = 1
  /\ code_lock = NULL
  /\ call = [p \in Callers |-> NoCall]

SpecLoop == LoopInit /\ [][LoopNext]_vars

SpecExec == Init /\ [][ExecNext]_vars

\* The followed thread keeps executing translated code as long as it is in
\* translated code.
SpecExecFair == Init /\ [][ExecFairNext]_vars /\ WF_vars(TranslatedStep)

SpecSite == Init /\ [][SiteNext]_vars

\* The thread that runs gum_stalker_stop goes on running it.
SpecStopFair ==
  /\ Init
  /\ [][StopNext]_vars
  /\ \A t \in Threads : WF_vars(StopStep(t))

SpecDestroy == Init /\ [][DestroyNext]_vars

SpecInval == Init /\ [][InvalNext]_vars

SpecSlabs == Init /\ [][SlabNext]_vars

SpecCall == Init /\ [][CallNext]_vars

SpecLookup == Init /\ [][LookupNext]_vars

\* A thread that is not stopped goes on, and one that spins on a lock or in
\* the loop of gum_stalker_invalidate_for_thread gets the lock in the end;
\* whether the guest program comes back to the block is up to the program.
SpecInvalFair ==
  /\ Init
  /\ [][InvalNext]_vars
  /\ SF_vars(VictimProgress)
  /\ \A c \in Invalidators : SF_vars(InvalidatorStep(c))
====
